---- MODULE Spec2Model ----
(***************************************************************************)
(* State-machine model of osu2saber's timeline index (generictools.py,     *)
(* IntSpanDict) and of its two-hand choreography simulator                 *)
(* (osu2saber/sabertools.py, BeatSaberHandsPositionsSimulator).            *)
(*                                                                         *)
(* Times are integers.  Hands are numbered as NoteTypeEnum numbers them:   *)
(* 0 = LeftRedNote, 1 = RightBlueNote.  Cut directions are the member      *)
(* names of NoteCutDirectionEnum.  A grid coordinate is the pair           *)
(* <<index, layer>> of BeatSaberHandCoordinateHolder.                      *)
(***************************************************************************)
EXTENDS Integers, Sequences, FiniteSets, TLC

VARIABLES
    hands,                      \* BeatSaberHandsPositionsSimulator.hands
    coreography_ids,            \* ordered output list of identities
    coreography_contents,       \* identity -> record
    coreography_hand_ids,       \* per hand: identity served now, or -1
    last_coreography_hand_ids,  \* per hand: identity released last, or -1
    raised,                     \* an exception left move_to
    clock,                      \* the attention loop's point of interest
    fed,                        \* identities passed to move_to so far
    calls,                      \* number of move_to calls that passed points
    call,                       \* the latest move_to call and what it did
    pending,                    \* points dropped and not passed again since
    difficulty,                 \* result of build_coreography, or NoDifficulty
    events,                     \* IntSpanDict.events of the index
    spans,                      \* IntSpanDict.spans of the index
    derived,                    \* the index returned by the latest map_keys
    copy,                       \* the derived index object and its origin
    answer,                     \* the latest query and its result
    probe,                      \* a direction and a coordinate under test
    loop                        \* the attention loop of osu2saber.py

simvars == <<hands, coreography_ids, coreography_contents, coreography_hand_ids,
             last_coreography_hand_ids, raised, clock, call, pending, fed, calls, difficulty>>
idxvars == <<events, spans, derived, copy, answer>>
vars == <<hands, coreography_ids, coreography_contents, coreography_hand_ids,
          last_coreography_hand_ids, raised, clock, call, pending, fed, calls, difficulty,
          events, spans, derived, copy, answer, probe, loop>>

----------------------------------------------------------------------------
(* Generic helpers *)

Range(s) == {s[i] : i \in 1..Len(s)}

Abs(n) == IF n < 0 THEN -n ELSE n

RECURSIVE SeqFilter(_, _)
SeqFilter(s, keep) ==
    IF s = <<>> THEN <<>>
    ELSE IF Head(s) \in keep THEN <<Head(s)>> \o SeqFilter(Tail(s), keep)
         ELSE SeqFilter(Tail(s), keep)

----------------------------------------------------------------------------
(* Enumerations of sabertools.py *)

LeftRedNote == 0
RightBlueNote == 1
HandEnums == {LeftRedNote, RightBlueNote}

Directions == {"Up", "Down", "Left", "Right",
               "UpLeft", "UpRight", "DownLeft", "DownRight", "Any"}
ConcreteDirections == Directions \ {"Any"}

\* (variant: without the members OffLeft and OffRight)
NoteLineIndexEnum_on == 0..3
\* NoteLineIndexEnum: OffLeft = -1 .. OffRight = 4
NoteLineIndexEnum == -1..4
\* NoteLineLayerEnum: OffBottom = -1 .. OffTop = 3
NoteLineLayerEnum == -1..3
\* NoteCanvasPositionEnum: TopLft = 1 .. BotRgt = 9
NoteCanvasPositionEnum == 1..9

FarLeft == 0
FarRight == 3

\* NoteCutDirectionEnum.opposite
\* (variant: the two right-hand diagonals answer with a vertical flip only)
opposite_flip(d) ==
    CASE d = "Up" -> "Down"
      [] d = "Down" -> "Up"
      [] d = "Left" -> "Right"
      [] d = "Right" -> "Left"
      [] d = "UpLeft" -> "DownRight"
      [] d = "UpRight" -> "DownRight"
      [] d = "DownLeft" -> "UpRight"
      [] d = "DownRight" -> "UpRight"
      [] OTHER -> "Any"

opposite(d) ==
    CASE d = "Up" -> "Down"
      [] d = "Down" -> "Up"
      [] d = "Left" -> "Right"
      [] d = "Right" -> "Left"
      [] d = "UpLeft" -> "DownRight"
      [] d = "UpRight" -> "DownLeft"
      [] d = "DownLeft" -> "UpRight"
      [] d = "DownRight" -> "UpLeft"
      [] OTHER -> "Any"

\* (variant: the origin taken at the top left)
from_movement_top_left(x, y) ==
    IF x = 0 /\ y = 0 THEN "Any"
    ELSE IF x < 0 /\ y = 0 THEN "Left"
    ELSE IF x > 0 /\ y = 0 THEN "Right"
    ELSE IF x = 0 /\ y > 0 THEN "Down"
    ELSE IF x < 0 /\ y > 0 THEN "DownLeft"
    ELSE IF x > 0 /\ y > 0 THEN "DownRight"
    ELSE IF x = 0 /\ y < 0 THEN "Up"
    ELSE IF x < 0 /\ y < 0 THEN "UpLeft"
    ELSE IF x > 0 /\ y < 0 THEN "UpRight"
    ELSE "Any"

\* NoteCutDirectionEnum.from_movement
from_movement(x, y) ==
    IF x = 0 /\ y = 0 THEN "Any"
    ELSE IF x < 0 /\ y = 0 THEN "Left"
    ELSE IF x > 0 /\ y = 0 THEN "Right"
    ELSE IF x = 0 /\ y > 0 THEN "Up"
    ELSE IF x < 0 /\ y > 0 THEN "UpLeft"
    ELSE IF x > 0 /\ y > 0 THEN "UpRight"
    ELSE IF x = 0 /\ y < 0 THEN "Down"
    ELSE IF x < 0 /\ y < 0 THEN "DownLeft"
    ELSE IF x > 0 /\ y < 0 THEN "DownRight"
    ELSE "Any"

\* NoteCutDirectionEnum.into_movement: name.startswith / name.endswith
into_movement(d) ==
    LET y == IF d \in {"Up", "UpLeft", "UpRight"} THEN 1
             ELSE IF d \in {"Down", "DownLeft", "DownRight"} THEN -1
             ELSE 0
        x == IF d \in {"Right", "UpRight", "DownRight"} THEN 1
             ELSE IF d \in {"Left", "UpLeft", "DownLeft"} THEN -1
             ELSE 0
    IN <<x, y>>

----------------------------------------------------------------------------
(* BeatSaberHandCoordinateHolder *)

\* the enum constructors NoteLineIndexEnum(idx), NoteLineLayerEnum(lyr)
\* raise ValueError outside their members
ValidCoordinate(c) == c[1] \in NoteLineIndexEnum /\ c[2] \in NoteLineLayerEnum

\* (variant: the step stops at the border of the enum ranges)
if_follow_clamped(c, cut) ==
    LET m == into_movement(cut)
        idx == c[1] + m[1]
        lyr == c[2] + m[2]
    IN <<IF idx < -1 THEN -1 ELSE IF idx > 4 THEN 4 ELSE idx,
         IF lyr < -1 THEN -1 ELSE IF lyr > 3 THEN 3 ELSE lyr>>

\* if_follow: the coordinate one step along cut (before the enum constructors)
if_follow(c, cut) ==
    LET m == into_movement(cut) IN <<c[1] + m[1], c[2] + m[2]>>

\* if_goto: direction from coordinate c to coordinate other
if_goto(c, other) == from_movement(other[1] - c[1], other[2] - c[2])

\* the coordinate one step from c in direction d, whether representable or not
one_step(c, d) == <<c[1] + into_movement(d)[1], c[2] + into_movement(d)[2]>>

----------------------------------------------------------------------------
(* BeatSaberCoreographyHintHolder: a record                                 *)
(*   [time_start, time_finish, coordinate, coordinate_end, note_type,      *)
(*    cut_direction, poa]                                                  *)
(* poa is a ghost field: the identity of the point of attention the record *)
(* was created for.                                                        *)

is_arc(c) == c.time_start # c.time_finish

----------------------------------------------------------------------------
(* BeatSaberHandPositionSimulator: a record                                 *)
(*   [hdisp, timing, coordinate, direction, on_arc]                        *)

\* (variant: both hands use the columns of the left hand)
adapt_left(hand, canvas_pos) ==
    << (canvas_pos - 1) % 3, 2 - ((canvas_pos - 1) \div 3) >>

adapt(hand, canvas_pos) ==
    << ((canvas_pos - 1) % 3) + hand.hdisp, 2 - ((canvas_pos - 1) \div 3) >>

\* (variant: the direction from the target back to the hand)
check_cut_movement_backwards(hand, other) == if_goto(other, hand.coordinate)

check_cut_movement_towards(hand, other) == if_goto(hand.coordinate, other)

\* check_cut raises when adapt or if_follow leaves the enum ranges
check_cut_raises(hand, time_start, time_finish, beat_pos) ==
    LET arc == time_start # time_finish
        canvas_pos == adapt(hand, beat_pos)
        d0 == check_cut_movement_towards(hand, canvas_pos)
    IN \/ ~ValidCoordinate(canvas_pos)
       \/ /\ (arc \/ hand.on_arc)
          /\ d0 = "Any"
          /\ ~ValidCoordinate(if_follow(hand.coordinate, hand.direction))

\* (variant: the opposite of the facing is tried before the projection)
check_cut_opposite(hand, time_start, time_finish, beat_pos, note_type, poa) ==
    LET arc == time_start # time_finish
        canvas_pos == adapt(hand, beat_pos)
        d0 == check_cut_movement_towards(hand, canvas_pos)
        d1 == IF (arc \/ hand.on_arc) /\ d0 = "Any"
              THEN opposite(hand.direction)
              ELSE d0
        d2 == IF (arc \/ hand.on_arc) /\ d1 = "Any"
              THEN check_cut_movement_towards(
                       hand, if_follow(hand.coordinate, hand.direction))
              ELSE d1
        d3 == IF (arc \/ hand.on_arc) /\ d2 = "Any"
              THEN "Down"
              ELSE d2
    IN [time_start |-> time_start,
        time_finish |-> time_finish,
        coordinate |-> canvas_pos,
        coordinate_end |-> canvas_pos,
        note_type |-> note_type,
        cut_direction |-> d3,
        poa |-> poa]

check_cut(hand, time_start, time_finish, beat_pos, note_type, poa) ==
    LET arc == time_start # time_finish
        canvas_pos == adapt(hand, beat_pos)
        d0 == check_cut_movement_towards(hand, canvas_pos)
        d1 == IF (arc \/ hand.on_arc) /\ d0 = "Any"
              THEN check_cut_movement_towards(
                       hand, if_follow(hand.coordinate, hand.direction))
              ELSE d0
        d2 == IF (arc \/ hand.on_arc) /\ d1 = "Any"
              THEN opposite(hand.direction)
              ELSE d1
        d3 == IF (arc \/ hand.on_arc) /\ d2 = "Any"
              THEN "Down"
              ELSE d2
    IN [time_start |-> time_start,
        time_finish |-> time_finish,
        coordinate |-> canvas_pos,
        coordinate_end |-> canvas_pos,
        note_type |-> note_type,
        cut_direction |-> d3,
        poa |-> poa]

cut_raises(coreography) ==
    ~ValidCoordinate(if_follow(coreography.coordinate, coreography.cut_direction))

\* (variant: the hand stops on the note)
cut_on_note(hand, now, coreography) ==
    [hand EXCEPT !.timing = now,
                 !.coordinate = coreography.coordinate,
                 !.direction = coreography.cut_direction,
                 !.on_arc = is_arc(coreography)]

cut(hand, now, coreography) ==
    [hand EXCEPT !.timing = now,
                 !.coordinate = if_follow(coreography.coordinate,
                                          coreography.cut_direction),
                 !.direction = coreography.cut_direction,
                 !.on_arc = is_arc(coreography)]

----------------------------------------------------------------------------
(* Bounds of the model *)

\* identities of points of attention are 1..MaxId
MaxId == 3
\* the points of interest are the times 0, TimeStep, .., MaxTick * TimeStep
MaxTick == 2
TimeStep == 650
\* at most MaxPoints points of attention per move_to call
MaxPoints == 3
\* at most MaxBreaks break intervals per build_coreography call
MaxBreaks == 2
\* at most MaxCalls move_to calls pass a non-empty list of points
MaxCalls == 3

(* Program constants *)

\* arc-continuity window of move_to
SmoothWindow == 750
\* BeatSaberInfoButDifficulties.beatsPerMinute default
BeatsPerMinute == 150

----------------------------------------------------------------------------
(* BeatSaberHandsPositionsSimulator.move_to                                 *)
(*                                                                         *)
(* A point of attention is <<beat_id, <<beat_start, beat_finish>>,         *)
(* beat_pos>>.  move_to is computed on a record S of the simulator's       *)
(* fields, together with what the call did so far:                         *)
(*   moves     the return value                                            *)
(*   assigned  <<beat_id, hand, fixed_beat_id>> of every commit, in order  *)
(*   dropped   beat_id of every point dropped for want of a free hand      *)
(*   busy      the hands that were given a record while not free           *)

\* (variant: the legacy simulator, which turns the hand round on release)
RECURSIVE release_flip(_, _, _)
release_flip(S, now, hand) ==
    IF hand > 1 THEN S
    ELSE
      LET coreography_id == S.hand_ids[hand]
          S1 == IF /\ coreography_id # -1
                   /\ now >= S.contents[coreography_id].time_finish
                THEN [S EXCEPT !.last_ids[hand] = coreography_id,
                               !.hand_ids[hand] = -1,
                               !.hands[hand].on_arc = FALSE,
                               !.hands[hand].direction = opposite(@)]
                ELSE S
      IN release_flip(S1, now, hand + 1)

\* for hand in range(2): free hand before assigning tasks
RECURSIVE release(_, _, _)
release(S, now, hand) ==
    IF hand > 1 THEN S
    ELSE
      LET coreography_id == S.hand_ids[hand]
          S1 == IF /\ coreography_id # -1
                   /\ now >= S.contents[coreography_id].time_finish
                THEN [S EXCEPT !.last_ids[hand] = coreography_id,
                               !.hand_ids[hand] = -1,
                               !.hands[hand].on_arc = FALSE]
                ELSE S
      IN release(S1, now, hand + 1)

\* the sort key of move_to:
\* (poa[1][0] != poa[1][1], -poa[1][1], poa[1][0], poa[2])
poa_key(poa) ==
    << IF poa[2][1] # poa[2][2] THEN 1 ELSE 0, -poa[2][2], poa[2][1], poa[3] >>

RECURSIVE key_less(_, _)
key_less(a, b) ==
    IF a = <<>> THEN FALSE
    ELSE IF Head(a) < Head(b) THEN TRUE
    ELSE IF Head(a) > Head(b) THEN FALSE
    ELSE key_less(Tail(a), Tail(b))

\* insert poa behind every element whose key is not greater (stable)
RECURSIVE sorted_insert(_, _)
sorted_insert(s, poa) ==
    IF s = <<>> THEN <<poa>>
    ELSE IF key_less(poa_key(poa), poa_key(Head(s)))
         THEN <<poa>> \o s
         ELSE <<Head(s)>> \o sorted_insert(Tail(s), poa)

\* sorted(points_of_attention, key=...)
RECURSIVE sorted_poas_from(_, _)
sorted_poas_from(done, rest) ==
    IF rest = <<>> THEN done
    ELSE sorted_poas_from(sorted_insert(done, Head(rest)), Tail(rest))

sorted_poas(points_of_attention) == sorted_poas_from(<<>>, points_of_attention)

\* the hands the legacy simulator treats as available: free, or serving a
\* record that started before now
available_hands_legacy(S, now) ==
    {h \in HandEnums : \/ S.hand_ids[h] = -1
                       \/ S.contents[S.hand_ids[h]].time_start <= now}

\* available_hands = [h for h, x in enumerate(coreography_hand_ids) if x == -1]
available_hands(S, now) == {h \in HandEnums : S.hand_ids[h] = -1}

\* the last preferred hand that is available, not the first
first_available_last(preferred_hands, available) ==
    IF preferred_hands[2] \in available THEN preferred_hands[2]
    ELSE IF preferred_hands[1] \in available THEN preferred_hands[1]
    ELSE -1

\* next(h for h in preferred_hands if h in available_hands);
\* -1 stands for StopIteration
first_available(preferred_hands, available) ==
    IF preferred_hands[1] \in available THEN preferred_hands[1]
    ELSE IF preferred_hands[2] \in available THEN preferred_hands[2]
    ELSE -1

\* (variant: in both-hands mode the hands that are free)
active_hands_of_free(both_hands, preferred_hands, available) ==
    IF both_hands THEN SeqFilter(preferred_hands, available)
    ELSE <<first_available(preferred_hands, available)>>

\* active_hands of move_to, both hands taken whether free or not
active_hands_of(both_hands, preferred_hands, available) ==
    IF both_hands THEN preferred_hands
    ELSE <<first_available(preferred_hands, available)>>

\* (variant: every hand keeps the direction of its own smoothing)
both_handed_cut_direction_own(last_both_handed_cut_direction, cut_direction) ==
    cut_direction

\* the direction of a smoothed record in both hands mode: that of the first
\* smoothed hand of the point, once there is one
both_handed_cut_direction(last_both_handed_cut_direction, cut_direction) ==
    IF last_both_handed_cut_direction = "Any"
    THEN cut_direction
    ELSE last_both_handed_cut_direction

\* one iteration of `for active_hand_enum in active_hands`.
\* L = [S, moved, last_both_handed_cut_direction]
cut_step(L, now, both_hands, poa, active_hand_enum) ==
    LET S == L.S
        beat_id == poa[1]
        beat_start == poa[2][1]
        beat_finish == poa[2][2]
        beat_pos == poa[3]
        last_id == S.last_ids[active_hand_enum]
        has_last == last_id \in DOMAIN S.contents
        last_coreography == S.contents[last_id]
        active_hand == S.hands[active_hand_enum]
        coreography == check_cut(active_hand, beat_start, beat_finish,
                                 beat_pos, active_hand_enum, beat_id)
        smooth == /\ has_last
                  /\ Abs(last_coreography.time_finish - coreography.time_start)
                         <= SmoothWindow
                  /\ is_arc(last_coreography)
        same_place == /\ ~smooth
                      /\ has_last
                      /\ ~is_arc(last_coreography)
                      /\ ~is_arc(coreography)
                      /\ last_coreography.coordinate[2] = coreography.coordinate[2]
                      /\ last_coreography.coordinate[1] = coreography.coordinate[1]
        smooth_direction == opposite(last_coreography.cut_direction)
        cut_direction ==
            IF smooth
            THEN IF both_hands
                 THEN both_handed_cut_direction(
                          L.last_both_handed_cut_direction, smooth_direction)
                 ELSE smooth_direction
            ELSE IF same_place THEN "Any"
            ELSE coreography.cut_direction
        last_both ==
            IF smooth /\ both_hands /\ L.last_both_handed_cut_direction = "Any"
            THEN smooth_direction
            ELSE L.last_both_handed_cut_direction
        final == [coreography EXCEPT !.cut_direction = cut_direction]
        moved == IF same_place \/ is_arc(final) THEN FALSE ELSE L.moved
        contents1 ==
            IF smooth
            THEN [S.contents EXCEPT
                     ![last_id].coordinate_end = coreography.coordinate,
                     ![last_id].time_finish = coreography.time_start]
            ELSE S.contents
        fixed_beat_id == IF ~both_hands THEN beat_id
                         ELSE beat_id + active_hand_enum
        contents2 == [k \in DOMAIN contents1 \cup {fixed_beat_id} |->
                         IF k = fixed_beat_id THEN final ELSE contents1[k]]
    IN IF S.raised THEN L
       ELSE IF check_cut_raises(active_hand, beat_start, beat_finish, beat_pos)
       THEN [L EXCEPT !.S.raised = TRUE]
       ELSE IF cut_raises(final)
       THEN [L EXCEPT !.S.raised = TRUE, !.S.contents = contents1]
       ELSE [S |-> [S EXCEPT
                      !.hands[active_hand_enum] = cut(active_hand, now, final),
                      !.hand_ids[active_hand_enum] = fixed_beat_id,
                      !.contents = contents2,
                      !.ids = Append(@, fixed_beat_id),
                      !.assigned = Append(@, <<beat_id, active_hand_enum,
                                               fixed_beat_id>>),
                      !.busy = IF S.hand_ids[active_hand_enum] # -1
                               THEN @ \cup {active_hand_enum} ELSE @],
             moved |-> moved,
             last_both_handed_cut_direction |-> last_both]

RECURSIVE cut_steps(_, _, _, _, _)
cut_steps(L, now, both_hands, poa, active_hands) ==
    IF active_hands = <<>> THEN L
    ELSE cut_steps(cut_step(L, now, both_hands, poa, Head(active_hands)),
                   now, both_hands, poa, Tail(active_hands))

\* (variant: a point is taken whenever it is passed, arriving or not)
process_poa_ongoing(S, now, both_hands, preferred_hands, poa) ==
    LET beat_id == poa[1]
        available == available_hands(S, now)
        active_hands == active_hands_of(both_hands, preferred_hands, available)
        L == cut_steps([S |-> S, moved |-> TRUE,
                        last_both_handed_cut_direction |-> "Any"],
                       now, both_hands, poa, active_hands)
    IN IF S.raised THEN S
       ELSE IF beat_id \in Range(S.ids) THEN S
       ELSE IF Cardinality(available) < 1
       THEN [S EXCEPT !.dropped = Append(@, beat_id)]
       ELSE IF active_hands = <<-1>>
       THEN [S EXCEPT !.raised = TRUE]
       ELSE IF L.S.raised THEN L.S
       ELSE [L.S EXCEPT !.moves = @ + (IF L.moved THEN 1 ELSE 0)]

\* one iteration of `for (...) in sorted_poas`
process_poa(S, now, both_hands, preferred_hands, poa) ==
    LET beat_id == poa[1]
        beat_start == poa[2][1]
        available == available_hands(S, now)
        active_hands == active_hands_of(both_hands, preferred_hands, available)
        L == cut_steps([S |-> S, moved |-> TRUE,
                        last_both_handed_cut_direction |-> "Any"],
                       now, both_hands, poa, active_hands)
    IN IF S.raised THEN S
       ELSE IF now # beat_start THEN S
       ELSE IF beat_id \in Range(S.ids) THEN S
       ELSE IF Cardinality(available) < 1
       THEN [S EXCEPT !.dropped = Append(@, beat_id)]
       ELSE IF active_hands = <<-1>>
       THEN [S EXCEPT !.raised = TRUE]
       ELSE IF L.S.raised THEN L.S
       ELSE [L.S EXCEPT !.moves = @ + (IF L.moved THEN 1 ELSE 0)]

RECURSIVE process_poas(_, _, _, _, _)
process_poas(S, now, both_hands, preferred_hands, poas) ==
    IF poas = <<>> THEN S
    ELSE process_poas(
             process_poa(S, now, both_hands, preferred_hands, Head(poas)),
             now, both_hands, preferred_hands, Tail(poas))

\* the simulator's fields before a call
sim_state ==
    [hands |-> hands,
     ids |-> coreography_ids,
     contents |-> coreography_contents,
     hand_ids |-> coreography_hand_ids,
     last_ids |-> last_coreography_hand_ids,
     raised |-> raised,
     moves |-> 0,
     assigned |-> <<>>,
     dropped |-> <<>>,
     busy |-> {}]

\* move_to as a function of the fields and the arguments
move_to(S, now, both_hands, preferred_hands, points_of_attention) ==
    process_poas(release(S, now, 0), now, both_hands, preferred_hands,
                 sorted_poas(points_of_attention))

----------------------------------------------------------------------------
(* BeatSaberInfoButDifficulties.convert_to_beat and build_coreography       *)

\* Python's round() of the quotient n / d, d > 0: ties go to the even integer
RoundHalfEven(n, d) ==
    LET q == n \div d
        r == n % d
    IN IF 2 * r < d THEN q
       ELSE IF 2 * r > d THEN q + 1
       ELSE IF q % 2 = 0 THEN q ELSE q + 1

\* convert_to_beat(event_ms) = round(round(event_ms / ms_between) / 4, 2) with
\* ms_between = 60000 / (4 * beatsPerMinute).  The result is a multiple of
\* 0.25; it is represented by its numerator over 4 (the count of quarters).
convert_to_beat(event_ms) == RoundHalfEven(event_ms * BeatsPerMinute, 15000)

NoDifficulty == [version |-> "none"]

\* (variant: the note is placed where the record ends)
note_of_end(contents, id_) ==
    LET coreography == contents[id_]
    IN [time |-> convert_to_beat(coreography.time_start),
        lineIndex |-> coreography.coordinate_end[1],
        lineLayer |-> coreography.coordinate_end[2],
        type |-> coreography.note_type,
        cutDirection |-> coreography.cut_direction,
        of |-> id_]

\* the note emitted for the record stored under id_ (of: ghost, the identity)
note_of(contents, id_) ==
    LET coreography == contents[id_]
    IN [time |-> convert_to_beat(coreography.time_start),
        lineIndex |-> coreography.coordinate[1],
        lineLayer |-> coreography.coordinate[2],
        type |-> coreography.note_type,
        cutDirection |-> coreography.cut_direction,
        of |-> id_]

\* (variant: the tail repeats the head's direction)
slider_of_same_tail(contents, id_) ==
    LET coreography == contents[id_]
    IN [colorType |-> coreography.note_type,
        headTime |-> convert_to_beat(coreography.time_start),
        headLineIndex |-> coreography.coordinate[1],
        headLineLayer |-> coreography.coordinate[2],
        headControlPointLengthMultiplier |-> "0.4",
        headCutDirection |-> coreography.cut_direction,
        tailTime |-> convert_to_beat(coreography.time_finish),
        tailLineIndex |-> coreography.coordinate_end[1],
        tailLineLayer |-> coreography.coordinate_end[2],
        tailControlPointLengthMultiplier |-> "0.4",
        tailCutDirection |-> coreography.cut_direction,
        sliderMidAnchorMode |-> "Straight",
        of |-> id_]

\* the slider emitted for the arc stored under id_
slider_of(contents, id_) ==
    LET coreography == contents[id_]
    IN [colorType |-> coreography.note_type,
        headTime |-> convert_to_beat(coreography.time_start),
        headLineIndex |-> coreography.coordinate[1],
        headLineLayer |-> coreography.coordinate[2],
        headControlPointLengthMultiplier |-> "0.4",
        headCutDirection |-> coreography.cut_direction,
        tailTime |-> convert_to_beat(coreography.time_finish),
        tailLineIndex |-> coreography.coordinate_end[1],
        tailLineLayer |-> coreography.coordinate_end[2],
        tailControlPointLengthMultiplier |-> "0.4",
        tailCutDirection |-> opposite(coreography.cut_direction),
        sliderMidAnchorMode |-> "Straight",
        of |-> id_]

\* for id_ in self.coreography_ids: notes
RECURSIVE build_notes(_, _)
build_notes(contents, ids) ==
    IF ids = <<>> THEN <<>>
    ELSE <<note_of(contents, Head(ids))>> \o build_notes(contents, Tail(ids))

\* for id_ in self.coreography_ids: sliders of the arcs
RECURSIVE build_sliders(_, _)
build_sliders(contents, ids) ==
    IF ids = <<>> THEN <<>>
    ELSE (IF is_arc(contents[Head(ids)])
          THEN <<slider_of(contents, Head(ids))>> ELSE <<>>)
         \o build_sliders(contents, Tail(ids))

\* (variant: the duration is the difference of the two converted bounds)
obstacle_of_between(s, e, w) ==
    [time |-> convert_to_beat(s),
     lineIndex |-> w,
     type |-> "FullHeightWall",
     duration |-> convert_to_beat(e) - convert_to_beat(s),
     width |-> 1]

obstacle_of(s, e, w) ==
    [time |-> convert_to_beat(s),
     lineIndex |-> w,
     type |-> "FullHeightWall",
     duration |-> convert_to_beat(e - s),
     width |-> 1]

\* for s, e in breaks: for w in (FarLeft, FarRight)
RECURSIVE build_obstacles(_)
build_obstacles(breaks) ==
    IF breaks = <<>> THEN <<>>
    ELSE << obstacle_of(Head(breaks)[1], Head(breaks)[2], FarLeft),
            obstacle_of(Head(breaks)[1], Head(breaks)[2], FarRight) >>
         \o build_obstacles(Tail(breaks))

build_coreography(contents, ids, breaks) ==
    [version |-> "2.6.0",
     notes |-> build_notes(contents, ids),
     sliders |-> build_sliders(contents, ids),
     obstacles |-> build_obstacles(breaks)]

----------------------------------------------------------------------------
(* The simulator as a state machine *)

Ids == 1..MaxId
Times == {t * TimeStep : t \in 0..MaxTick}
Orders == {<<LeftRedNote, RightBlueNote>>, <<RightBlueNote, LeftRedNote>>}

\* BeatSaberHandsPositionsSimulator.__init__
InitHands ==
    [h \in HandEnums |->
        [hdisp |-> h,
         timing |-> 0,
         coordinate |-> IF h = LeftRedNote THEN <<1, 2>> ELSE <<2, 2>>,
         direction |-> "Down",
         on_arc |-> TRUE]]

\* the attention loop before it starts: the points of interest, how many of
\* them are done, LPOI, the breaks recorded and the breaks handed to
\* build_coreography
NoLoop ==
    [pc |-> "idle", pois |-> <<>>, at |-> 0, LPOI |-> 0,
     breaks |-> <<>>, breaks_adj |-> <<>>,
     objects |-> <<>>, flags |-> <<>>, multi_key |-> FALSE,
     kiais |-> <<>>, combos |-> <<>>, active |-> <<>>,
     double_hand |-> FALSE, preferred_hand |-> 0]

\* the latest move_to call: its arguments (now = -1: none yet), the hands
\* and their slots after its release step (released, free), what it did and
\* the number it returned (moves)
NoCall ==
    [now |-> -1, both_hands |-> FALSE,
     preferred_hands |-> <<LeftRedNote, RightBlueNote>>,
     points_of_attention |-> <<>>,
     released |-> [hands |-> InitHands,
                   hand_ids |-> [h \in HandEnums |-> -1],
                   last_ids |-> [h \in HandEnums |-> -1]],
     free |-> {}, arrivals |-> <<>>,
     assigned |-> <<>>, dropped |-> <<>>, busy |-> {}, moves |-> 0]

InitSim ==
    /\ hands = InitHands
    /\ coreography_ids = <<>>
    /\ coreography_contents = <<>>
    /\ coreography_hand_ids = [h \in HandEnums |-> -1]
    /\ last_coreography_hand_ids = [h \in HandEnums |-> -1]
    /\ raised = FALSE
    /\ clock = 0
    /\ call = NoCall
    /\ pending = {}
    /\ fed = {}
    /\ calls = 0
    /\ difficulty = NoDifficulty

\* the shapes <<duration, zone>> of the points of attention fed to move_to:
\* an instantaneous point, an arc shorter than the distance between two
\* points of interest and an arc longer than that
Shapes == {<<0, 4>>, <<TimeStep \div 2, 6>>, <<(3 * TimeStep) \div 2, 4>>}

poa_of(beat_id, start, shape) ==
    <<beat_id, <<start, start + shape[1]>>, shape[2]>>

\* lists of n points with pairwise distinct identities from ids, all
\* starting now
RECURSIVE FreshLists(_, _, _)
FreshLists(ids, now, n) ==
    IF n = 0 THEN {<<>>}
    ELSE {<<poa_of(i, now, sh)>> \o l :
              i \in ids, sh \in Shapes,
              l \in FreshLists(ids, now, n - 1)}

Increasing(l) == \A i \in 1..Len(l) - 1 : l[i][1] < l[i + 1][1]

\* the n least elements of a set of identities
RECURSIVE least(_, _)
least(ids, n) ==
    IF n = 0 \/ ids = {} THEN {}
    ELSE LET m == CHOOSE x \in ids : \A y \in ids : x <= y
         IN {m} \cup least(ids \ {m}, n - 1)

\* the least and the greatest element of a set of identities
ends(ids) ==
    {i \in ids : (\A j \in ids : i <= j) \/ (\A j \in ids : i >= j)}

\* the arguments <<both_hands, preferred_hands, points_of_attention>> of one
\* move_to call at `now`:
\*  - no point at all;
\*  - one point never passed before (the least or the greatest identity
\*    left), starting now, in single-hand mode with either preferred order
\*    or in both-hands mode;
\*  - two such points, in single-hand mode with either preferred order;
\*  - 3 .. MaxPoints such points, in single-hand mode;
\*  - one point passed before, starting now or still in progress, in
\*    single-hand mode;
\*  - one point that starts at the next point of interest, alone or after a
\*    point that starts now, in single-hand mode
\* (lists of several points carry the least identities not passed before, in
\* increasing order)
MoveToArguments(now) ==
    LET fresh == Ids \ fed
        left_first == <<FALSE, <<LeftRedNote, RightBlueNote>>>>
        single == {FALSE} \X Orders
        modes == single \cup {<<TRUE, <<LeftRedNote, RightBlueNote>>>>}
        one == FreshLists(ends(fresh), now, 1)
        two == {l \in FreshLists(least(fresh, 2), now, 2) : Increasing(l)}
        again == {<<poa_of(i, now, <<0, 4>>)>> : i \in fed}
                 \cup (IF now >= TimeStep
                       THEN {<<poa_of(i, now - TimeStep,
                                      <<(3 * TimeStep) \div 2, 4>>)>> : i \in fed}
                       ELSE {})
        many == UNION {{l \in FreshLists(least(fresh, n), now, n) :
                           Increasing(l)} : n \in 3..MaxPoints}
        later == {<<poa_of(i, now + TimeStep, <<0, 4>>)>> : i \in least(fresh, 1)}
                 \cup {<<poa_of(l[1], now, <<0, 4>>),
                         poa_of(l[2], now + TimeStep, <<0, 6>>)>> :
                           l \in {l \in least(fresh, 2) \X least(fresh, 2) :
                                     l[1] < l[2]}}
    IN {<<FALSE, <<LeftRedNote, RightBlueNote>>, <<>> >>}
       \cup (IF calls >= MaxCalls THEN {}
             ELSE {<<m[1], m[2], l>> : m \in modes, l \in one}
                  \cup {<<m[1], m[2], l>> : m \in single, l \in two}
                  \cup {<<m[1], m[2], l>> : m \in {left_first},
                                            l \in many \cup again \cup later})

\* the points of a call that reach the free-hand test: they start now and
\* their identity is not in the ordered output list; in processing order
Arrivals(ids, now, poas) ==
    LET s == sorted_poas(poas)
    IN SeqFilter(s, {p \in Range(s) : p[2][1] = now /\ p[1] \notin Range(ids)})

\* one call of move_to by the attention loop at its current point of interest
MoveToCall(both_hands, preferred_hands, points_of_attention) ==
    /\ \E S \in {move_to(sim_state, clock, both_hands, preferred_hands,
                         points_of_attention)} :
         LET R == release(sim_state, clock, 0)
             A == Arrivals(coreography_ids, clock, points_of_attention)
         IN /\ hands' = S.hands
            /\ coreography_ids' = S.ids
            /\ coreography_contents' = S.contents
            /\ coreography_hand_ids' = S.hand_ids
            /\ last_coreography_hand_ids' = S.last_ids
            /\ raised' = S.raised
            /\ call' = [now |-> clock,
                        both_hands |-> both_hands,
                        preferred_hands |-> preferred_hands,
                        points_of_attention |-> points_of_attention,
                        released |-> [hands |-> R.hands,
                                      hand_ids |-> R.hand_ids,
                                      last_ids |-> R.last_ids],
                        free |-> {h \in HandEnums : R.hand_ids[h] = -1},
                        arrivals |-> A,
                        assigned |-> S.assigned,
                        dropped |-> S.dropped,
                        busy |-> S.busy,
                        moves |-> S.moves]
            /\ pending' = (pending \ {p[1] : p \in Range(points_of_attention)})
                              \cup Range(S.dropped)
    /\ fed' = fed \cup {p[1] : p \in Range(points_of_attention)}
    /\ calls' = IF points_of_attention = <<>> THEN calls ELSE calls + 1
    /\ UNCHANGED <<clock, difficulty, idxvars, probe, loop>>

MoveTo ==
    /\ difficulty = NoDifficulty
    /\ ~raised
    /\ \E a \in MoveToArguments(clock) : MoveToCall(a[1], a[2], a[3])

\* the attention loop goes on to its next point of interest
NextPointOfInterest ==
    /\ difficulty = NoDifficulty
    /\ ~raised
    /\ clock + TimeStep \in Times
    /\ clock' = clock + TimeStep
    /\ UNCHANGED <<hands, coreography_ids, coreography_contents,
                   coreography_hand_ids, last_coreography_hand_ids, raised,
                   call, pending, fed, calls, difficulty, idxvars, probe, loop>>

\* the k-th break interval of a run, in milliseconds: the intervals follow
\* each other in time, as the attention loop finds them
break_of(k) == <<(k - 1) * 2000 + 340, (k - 1) * 2000 + 1280>>

\* the break lists handed to build_coreography: the first n breaks or fewer
RECURSIVE BreakLists(_)
BreakLists(n) ==
    IF n = 0 THEN {<<>>}
    ELSE BreakLists(n - 1) \cup {[k \in 1..n |-> break_of(k)]}

\* the attention loop has ended: build_coreography(breaks)
BuildCoreography ==
    /\ difficulty = NoDifficulty
    /\ ~raised
    /\ clock = MaxTick * TimeStep
    /\ \E breaks \in BreakLists(MaxBreaks) :
          /\ difficulty' = build_coreography(coreography_contents,
                                             coreography_ids, breaks)
          /\ loop' = [loop EXCEPT !.breaks_adj = breaks]
    /\ UNCHANGED <<hands, coreography_ids, coreography_contents,
                   coreography_hand_ids, last_coreography_hand_ids, raised,
                   clock, call, pending, fed, calls, idxvars, probe>>

NextSim == MoveTo \/ NextPointOfInterest \/ BuildCoreography

----------------------------------------------------------------------------
(* The simulator fed one instantaneous point per call, at strictly         *)
(* increasing times, in single-hand mode                                   *)

\* number of points fed
SoloPoints == 4
\* distances between two calls: inside and outside the smoothing window
SoloGaps == {250, 1000}
SoloZones == {4, 6}
\* the identities a call may pick: the least and the greatest not yet fed
SoloFresh == ends((1..SoloPoints) \ fed)

\* move_to(now, False, order, [(id, (now, now), zone)]) with a fresh identity
SoloMoveTo ==
    /\ difficulty = NoDifficulty
    /\ call.now < clock
    /\ calls < SoloPoints
    /\ \E order \in Orders, zone \in SoloZones, i \in SoloFresh :
          MoveToCall(FALSE, order, <<poa_of(i, clock, <<0, zone>>)>>)

\* the next call comes strictly later
SoloAdvance ==
    /\ difficulty = NoDifficulty
    /\ call.now = clock
    /\ calls < SoloPoints
    /\ \E gap \in SoloGaps : clock' = clock + gap
    /\ UNCHANGED <<hands, coreography_ids, coreography_contents,
                   coreography_hand_ids, last_coreography_hand_ids, raised,
                   call, pending, fed, calls, difficulty, idxvars, probe, loop>>

\* build_coreography() with no breaks
SoloBuild ==
    /\ difficulty = NoDifficulty
    /\ calls > 0
    /\ difficulty' = build_coreography(coreography_contents,
                                       coreography_ids, <<>>)
    /\ UNCHANGED <<hands, coreography_ids, coreography_contents,
                   coreography_hand_ids, last_coreography_hand_ids, raised,
                   clock, call, pending, fed, calls, idxvars, probe, loop>>

NextSolo == SoloMoveTo \/ SoloAdvance \/ SoloBuild

----------------------------------------------------------------------------
(* The simulator fed one point per call, of any of the nine zones, in      *)
(* either mode                                                             *)

\* number of calls
GridCalls == 2
\* an instantaneous point or an arc
GridDurations == {0, 1000}
\* time between two calls: none, less than an arc and than the smoothing
\* window, more than both
GridGaps == {500, 2000}
GridModes == ({FALSE} \X Orders) \cup {<<TRUE, <<LeftRedNote, RightBlueNote>>>>}

\* move_to(now, both_hands, order, [(id, (now, now + duration), zone)]); the
\* identities are 1, 3, 5, ..
GridMoveTo ==
    /\ difficulty = NoDifficulty
    /\ ~raised
    /\ calls < GridCalls
    /\ \E m \in GridModes, zone \in NoteCanvasPositionEnum,
          duration \in GridDurations :
          MoveToCall(m[1], m[2],
                     <<poa_of(2 * calls + 1, clock, <<duration, zone>>)>>)

GridAdvance ==
    /\ difficulty = NoDifficulty
    /\ call.now = clock
    /\ calls < GridCalls
    /\ \E gap \in GridGaps : clock' = clock + gap
    /\ UNCHANGED <<hands, coreography_ids, coreography_contents,
                   coreography_hand_ids, last_coreography_hand_ids, raised,
                   call, pending, fed, calls, difficulty, idxvars, probe, loop>>

\* build_coreography() with no breaks
GridBuild ==
    /\ difficulty = NoDifficulty
    /\ ~raised
    /\ calls > 0
    /\ difficulty' = build_coreography(coreography_contents,
                                       coreography_ids, <<>>)
    /\ UNCHANGED <<hands, coreography_ids, coreography_contents,
                   coreography_hand_ids, last_coreography_hand_ids, raised,
                   clock, call, pending, fed, calls, idxvars, probe, loop>>

NextGrid == GridMoveTo \/ GridAdvance \/ GridBuild

----------------------------------------------------------------------------
(* generictools.IntSpanDict                                                 *)
(*                                                                         *)
(* events is the dict of point events in the order its keys were inserted: *)
(* a sequence of <<key, values>>.  spans is the list of <<span, value>>    *)
(* with span = <<start, end>>.  Values are numbered as they are appended.  *)

\* the keys of the index are 0..MaxKey
MaxKey == 2
\* at most MaxEntries values are appended
MaxEntries == 3

Keys == 0..MaxKey
SpanKeys == {sp \in Keys \X Keys : sp[1] <= sp[2]}

\* position of point among the keys of events, 0 when absent
RECURSIVE key_index(_, _, _)
key_index(ev, point, i) ==
    IF i > Len(ev) THEN 0
    ELSE IF ev[i][1] = point THEN i
    ELSE key_index(ev, point, i + 1)

\* self.events.get(point, list())
events_get(ev, point) ==
    LET i == key_index(ev, point, 1)
    IN IF i = 0 THEN <<>> ELSE ev[i][2]

append_point(ev, point, value) ==
    LET i == key_index(ev, point, 1)
    IN IF i = 0 THEN Append(ev, <<point, <<value>>>>)
       ELSE [ev EXCEPT ![i][2] = Append(@, value)]

append_span(sp, span, value) == Append(sp, <<span, value>>)

\* (variant: the upper bound of the span is excluded)
RECURSIVE filter_span_from_point_open(_, _)
filter_span_from_point_open(sp, point) ==
    IF sp = <<>> THEN <<>>
    ELSE (IF Head(sp)[1][1] <= point /\ point < Head(sp)[1][2]
          THEN <<Head(sp)[2]>> ELSE <<>>)
         \o filter_span_from_point_open(Tail(sp), point)

\* _filter_span_from_point_generator
RECURSIVE filter_span_from_point(_, _)
filter_span_from_point(sp, point) ==
    IF sp = <<>> THEN <<>>
    ELSE (IF Head(sp)[1][1] <= point /\ point <= Head(sp)[1][2]
          THEN <<Head(sp)[2]>> ELSE <<>>)
         \o filter_span_from_point(Tail(sp), point)

\* _filter_event_from_span_generator
RECURSIVE filter_event_from_span(_, _)
filter_event_from_span(ev, span) ==
    IF ev = <<>> THEN <<>>
    ELSE (IF span[1] <= Head(ev)[1] /\ Head(ev)[1] <= span[2]
          THEN Head(ev)[2] ELSE <<>>)
         \o filter_event_from_span(Tail(ev), span)

\* (variant: the overlap test of the legacy simulator's kind, bounds excluded)
RECURSIVE filter_span_from_span_strict(_, _)
filter_span_from_span_strict(sp, span_request) ==
    IF sp = <<>> THEN <<>>
    ELSE LET span_knowledge == Head(sp)[1]
         IN (IF \/ (span_request[1] > span_knowledge[1]
                      /\ span_request[1] < span_knowledge[2])
                \/ (span_request[2] > span_knowledge[1]
                      /\ span_request[2] < span_knowledge[2])
                \/ (span_knowledge[1] > span_request[1]
                      /\ span_knowledge[1] < span_request[2])
                \/ (span_knowledge[2] > span_request[1]
                      /\ span_knowledge[2] < span_request[2])
             THEN <<Head(sp)[2]>> ELSE <<>>)
            \o filter_span_from_span_strict(Tail(sp), span_request)

\* _filter_span_from_span_generator
RECURSIVE filter_span_from_span(_, _)
filter_span_from_span(sp, span_request) ==
    IF sp = <<>> THEN <<>>
    ELSE LET span_knowledge == Head(sp)[1]
         IN (IF \/ (span_request[1] >= span_knowledge[1]
                      /\ span_request[1] <= span_knowledge[2])
                \/ (span_request[2] >= span_knowledge[1]
                      /\ span_request[2] <= span_knowledge[2])
                \/ (span_knowledge[1] >= span_request[1]
                      /\ span_knowledge[1] <= span_request[2])
                \/ (span_knowledge[2] >= span_request[1]
                      /\ span_knowledge[2] <= span_request[2])
             THEN <<Head(sp)[2]>> ELSE <<>>)
            \o filter_span_from_span(Tail(sp), span_request)

active_at_point(ev, sp, point) ==
    events_get(ev, point) \o filter_span_from_point(sp, point)

active_at_span(ev, sp, span) ==
    filter_event_from_span(ev, span) \o filter_span_from_span(sp, span)

\* (variant: the greatest element first)
RECURSIVE sorted_set_reversed(_)
sorted_set_reversed(set) ==
    IF set = {} THEN <<>>
    ELSE LET m == CHOOSE x \in set : \A y \in set : x >= y
         IN <<m>> \o sorted_set_reversed(set \ {m})

\* sorted(set): the elements of a finite set of integers in increasing order
RECURSIVE sorted_set(_)
sorted_set(set) ==
    IF set = {} THEN <<>>
    ELSE LET m == CHOOSE x \in set : \A y \in set : x <= y
         IN <<m>> \o sorted_set(set \ {m})

\* (variant: only the first coordinate of every span is taken)
points_of_interest_starts(ev, sp) ==
    sorted_set({ev[i][1] : i \in 1..Len(ev)}
               \cup {sp[i][1][1] : i \in 1..Len(sp)})

\* sorted(set(events.keys()) | set(_flatten(next(zip(*spans), list())))):
\* next(zip(*spans)) is the tuple of all the spans, which _flatten spreads
\* into the two coordinates of each
points_of_interest(ev, sp) ==
    sorted_set({ev[i][1] : i \in 1..Len(ev)}
               \cup UNION {{sp[i][1][1], sp[i][1][2]} : i \in 1..Len(sp)})

\* the key mappers handed to map_keys; Quantize is round_to_beat for a grid
\* of 2: round(round(k / 2) * 2)
Quantize(k) == RoundHalfEven(k, 2) * 2
Mirror(k) == MaxKey - k
Mappers == {"Identity", "Quantize", "Mirror"}
apply_mapper(mapper, k) ==
    CASE mapper = "Quantize" -> Quantize(k)
      [] mapper = "Mirror" -> Mirror(k)
      [] OTHER -> k

\* (variant: the new index holds the dict and the list of the index it is
\* made from)
empty_index_shared == [events |-> <<>>, spans |-> <<>>, own |-> FALSE]

\* type(self)(): __init__ is given no events and no spans and makes a dict
\* and a list of its own (own: the containers are no other index's)
empty_index == [events |-> <<>>, spans |-> <<>>, own |-> TRUE]

\* for k, vs in self.events.items(): for v in vs: other.append_point(..)
RECURSIVE map_values(_, _, _, _)
map_values(other_events, mapper, k, vs) ==
    IF vs = <<>> THEN other_events
    ELSE map_values(append_point(other_events, apply_mapper(mapper, k), Head(vs)),
                    mapper, k, Tail(vs))

\* (variant: only the first value of every key is carried over)
RECURSIVE map_events_first(_, _, _)
map_events_first(other_events, mapper, ev) ==
    IF ev = <<>> THEN other_events
    ELSE map_events_first(
             map_values(other_events, mapper, Head(ev)[1],
                        <<Head(Head(ev)[2])>>),
             mapper, Tail(ev))

RECURSIVE map_events(_, _, _)
map_events(other_events, mapper, ev) ==
    IF ev = <<>> THEN other_events
    ELSE map_events(map_values(other_events, mapper, Head(ev)[1], Head(ev)[2]),
                    mapper, Tail(ev))

\* (variant: a span stays a span whatever its mapped coordinates)
RECURSIVE map_spans_keep(_, _, _)
map_spans_keep(other, mapper, sp) ==
    IF sp = <<>> THEN other
    ELSE LET nks == apply_mapper(mapper, Head(sp)[1][1])
             nke == apply_mapper(mapper, Head(sp)[1][2])
             v == Head(sp)[2]
         IN map_spans_keep(
                [other EXCEPT !.spans = append_span(@, <<nks, nke>>, v)],
                mapper, Tail(sp))

\* for (ks, ke), v in self.spans: ...
RECURSIVE map_spans(_, _, _)
map_spans(other, mapper, sp) ==
    IF sp = <<>> THEN other
    ELSE LET nks == apply_mapper(mapper, Head(sp)[1][1])
             nke == apply_mapper(mapper, Head(sp)[1][2])
             v == Head(sp)[2]
         IN map_spans(
                IF nks = nke
                THEN [other EXCEPT !.events = append_point(@, nks, v)]
                ELSE [other EXCEPT !.spans = append_span(@, <<nks, nke>>, v)],
                mapper, Tail(sp))

map_keys(ev, sp, mapper) ==
    LET other == map_spans(empty_index, mapper, sp)
    IN [other EXCEPT !.events = map_events(@, mapper, ev)]

\* a condition on values is the set of the values it accepts
Conditions ==
    {{1}, 2..MaxEntries, 1..MaxEntries}

\* for k1, v in self.spans: if condition(v): other.append_span(k1, v)
RECURSIVE retain_spans(_, _, _)
retain_spans(other, condition, sp) ==
    IF sp = <<>> THEN other
    ELSE retain_spans(
             IF Head(sp)[2] \in condition
             THEN [other EXCEPT !.spans = append_span(@, Head(sp)[1], Head(sp)[2])]
             ELSE other,
             condition, Tail(sp))

\* (variant: the key is entered before its values are tested)
RECURSIVE retain_values_keyed(_, _, _, _)
retain_values_keyed(other, condition, k2, vs) ==
    IF vs = <<>>
    THEN (IF key_index(other.events, k2, 1) = 0
          THEN [other EXCEPT !.events = Append(@, <<k2, <<>>>>)]
          ELSE other)
    ELSE retain_values_keyed(
             IF Head(vs) \in condition
             THEN [other EXCEPT !.events = append_point(@, k2, Head(vs))]
             ELSE other,
             condition, k2, Tail(vs))

\* for v in vs: if condition(v): other.append_point(k2, v)
RECURSIVE retain_values(_, _, _, _)
retain_values(other, condition, k2, vs) ==
    IF vs = <<>> THEN other
    ELSE retain_values(
             IF Head(vs) \in condition
             THEN [other EXCEPT !.events = append_point(@, k2, Head(vs))]
             ELSE other,
             condition, k2, Tail(vs))

\* for k2, vs in self.events.items(): ...
RECURSIVE retain_events(_, _, _)
retain_events(other, condition, ev) ==
    IF ev = <<>> THEN other
    ELSE retain_events(retain_values(other, condition, Head(ev)[1], Head(ev)[2]),
                       condition, Tail(ev))

retain_value(ev, sp, condition) ==
    retain_events(retain_spans(empty_index, condition, sp), condition, ev)

----------------------------------------------------------------------------
(* The index as a state machine: it is built by appends, then remapped or  *)
(* filtered; queries are made at any time, and values are appended to the  *)
(* index and to the derived one afterwards.                                *)

NoCopy == [op |-> "none"]

\* the derived index object: the call that made it (op, arg), the index it
\* was made from as it was at the call (source), what the call returned, and
\* the object's events and spans now
copy_of(op, arg, ev, sp, other) ==
    [op |-> op, arg |-> arg,
     source |-> [events |-> ev, spans |-> sp],
     returned |-> [events |-> other.events, spans |-> other.spans],
     events |-> other.events, spans |-> other.spans,
     own |-> other.own, added |-> 0]

NoIndex == [mapper |-> "none"]
NoAnswer == [op |-> "none"]

\* number of values appended so far
entries(ev, sp) ==
    Len(sp) + Cardinality({<<i, j>> \in (1..Len(ev)) \X (1..MaxEntries + 1) :
                              j <= Len(ev[i][2])})

InitIdxIdle ==
    /\ events = <<>>
    /\ spans = <<>>
    /\ derived = NoIndex
    /\ copy = NoCopy
    /\ answer = NoAnswer

\* the keys of the values appended once a derived index exists
LaterKeys == {0}
LaterSpanKeys == {<<0, MaxKey>>}

\* the number of the next value appended to either index
next_value ==
    entries(events, spans) + (IF copy = NoCopy THEN 0 ELSE copy.added) + 1

\* the derived index object after the index it was made from became (ev, sp):
\* nothing changes for an object with containers of its own
copy_after(ev, sp) ==
    IF copy = NoCopy \/ copy.own THEN copy
    ELSE [copy EXCEPT !.events = ev, !.spans = sp]

AppendPoint ==
    /\ derived = NoIndex
    /\ next_value <= MaxEntries
    /\ \E point \in (IF copy = NoCopy THEN Keys ELSE LaterKeys) :
          /\ events' = append_point(events, point, next_value)
          /\ copy' = copy_after(events', spans)
    /\ answer' = NoAnswer
    /\ UNCHANGED <<spans, derived, simvars, probe, loop>>

AppendSpan ==
    /\ derived = NoIndex
    /\ next_value <= MaxEntries
    /\ \E span \in (IF copy = NoCopy THEN SpanKeys ELSE LaterSpanKeys) :
          /\ spans' = append_span(spans, span, next_value)
          /\ copy' = copy_after(events, spans')
    /\ answer' = NoAnswer
    /\ UNCHANGED <<events, derived, simvars, probe, loop>>

\* other.append_point(point, value) on the derived index
AppendPointCopy ==
    /\ copy # NoCopy
    /\ next_value <= MaxEntries
    /\ \E point \in LaterKeys :
          /\ copy' = [copy EXCEPT !.events = append_point(@, point, next_value),
                                  !.added = @ + 1]
          /\ events' = IF copy.own THEN events
                       ELSE append_point(events, point, next_value)
    /\ UNCHANGED <<spans, derived, answer, simvars, probe, loop>>

\* other.append_span(span, value) on the derived index
AppendSpanCopy ==
    /\ copy # NoCopy
    /\ next_value <= MaxEntries
    /\ \E span \in LaterSpanKeys :
          /\ copy' = [copy EXCEPT !.spans = append_span(@, span, next_value),
                                  !.added = @ + 1]
          /\ spans' = IF copy.own THEN spans
                      ELSE append_span(spans, span, next_value)
    /\ UNCHANGED <<events, derived, answer, simvars, probe, loop>>

ActiveAtPoint ==
    /\ \E point \in Keys :
          answer' = [op |-> "active_at_point", arg |-> point,
                     result |-> active_at_point(events, spans, point)]
    /\ UNCHANGED <<events, spans, derived, copy, simvars, probe, loop>>

ActiveAtSpan ==
    /\ \E span \in SpanKeys :
          answer' = [op |-> "active_at_span", arg |-> span,
                     result |-> active_at_span(events, spans, span)]
    /\ UNCHANGED <<events, spans, derived, copy, simvars, probe, loop>>

PointsOfInterest ==
    /\ answer' = [op |-> "points_of_interest", arg |-> <<>>,
                  result |-> points_of_interest(events, spans)]
    /\ UNCHANGED <<events, spans, derived, copy, simvars, probe, loop>>

MapKeys ==
    /\ derived = NoIndex
    /\ copy = NoCopy
    /\ \E mapper \in Mappers :
          \E other \in {map_keys(events, spans, mapper)} :
              /\ derived' = [mapper |-> mapper,
                             events |-> other.events,
                             spans |-> other.spans]
              /\ copy' = copy_of("map_keys", mapper, events, spans, other)
    /\ UNCHANGED <<events, spans, answer, simvars, probe, loop>>

RetainValue ==
    /\ copy = NoCopy
    /\ \E condition \in Conditions :
          copy' = copy_of("retain_value", condition, events, spans,
                          retain_value(events, spans, condition))
    /\ UNCHANGED <<events, spans, derived, answer, simvars, probe, loop>>

NextIdx ==
    \/ AppendPoint
    \/ AppendSpan
    \/ ActiveAtPoint
    \/ ActiveAtSpan
    \/ PointsOfInterest
    \/ MapKeys
    \/ RetainValue
    \/ AppendPointCopy
    \/ AppendSpanCopy

----------------------------------------------------------------------------
(* The direction and coordinate helpers, applied to a probe: a direction d *)
(* (d0 when the probe was set up, n applications of opposite ago) and a    *)
(* coordinate c.  op and arg are the helper applied last and its argument, *)
(* was is the coordinate before it, raised tells that it raised ValueError.*)
(* movement is the result of into_movement when it was the helper applied *)
(* last, and (0, 0) otherwise.                                             *)

NoProbe == [d0 |-> "Any", d |-> "Any", n |-> 0, c |-> <<0, 0>>,
            op |-> "none", arg |-> <<>>, was |-> <<0, 0>>, raised |-> FALSE,
            movement |-> <<0, 0>>, pos |-> 0]

\* the movements handed to from_movement: MaxMove cells either way
MaxMove == 2
Moves == (-MaxMove..MaxMove) \X (-MaxMove..MaxMove)

\* integers handed over as zones: OffZones below 1 and OffZones above 9
OffZones == 4
Zones == (1 - OffZones)..(9 + OffZones)

InitProbe ==
    probe \in {[NoProbe EXCEPT !.d0 = d, !.d = d, !.c = <<x, y>>,
                                !.was = <<x, y>>] :
                  d \in Directions, x \in 0..3, y \in 0..2}

Opposite ==
    /\ ~probe.raised
    /\ probe.n < 2
    /\ probe' = [probe EXCEPT !.d = opposite(probe.d), !.n = probe.n + 1,
                              !.op = "opposite", !.arg = <<probe.d>>,
                              !.was = probe.c, !.movement = <<0, 0>>]
    /\ UNCHANGED <<simvars, idxvars, loop>>

\* BeatSaberHandCoordinateHolder.follow: goto(if_follow(cut)); the enum
\* constructors of if_follow raise before goto is reached
Follow ==
    /\ ~probe.raised
    /\ probe.d # "Any"
    /\ \E to \in {if_follow(probe.c, probe.d)} :
          probe' = [probe EXCEPT !.c = IF ValidCoordinate(to) THEN to ELSE @,
                                 !.raised = ~ValidCoordinate(to),
                                 !.op = "follow", !.arg = <<probe.d>>,
                                 !.was = probe.c, !.movement = <<0, 0>>]
    /\ UNCHANGED <<simvars, idxvars, loop>>

\* adapt raises when one of its two enum constructors does
adapt_raises(hand, canvas_pos) == ~ValidCoordinate(adapt(hand, canvas_pos))

\* a hand is sent to adapt(canvas_pos); canvas_pos is whatever integer the
\* caller hands over
Adapt ==
    /\ ~probe.raised
    /\ \E hdisp \in HandEnums, canvas_pos \in Zones :
          \E hand \in {[hdisp |-> hdisp]} :
              probe' = [probe EXCEPT
                           !.c = IF adapt_raises(hand, canvas_pos) THEN @
                                 ELSE adapt(hand, canvas_pos),
                           !.raised = adapt_raises(hand, canvas_pos),
                           !.op = "adapt", !.arg = <<hdisp, canvas_pos>>,
                           !.was = probe.c, !.movement = <<0, 0>>]
    /\ UNCHANGED <<simvars, idxvars, loop>>

\* NoteCanvasPositionEnum(pos) of the attention loop: ValueError when pos is
\* no member
Zone ==
    /\ ~probe.raised
    /\ \E pos \in Zones :
          probe' = [probe EXCEPT !.raised = pos \notin NoteCanvasPositionEnum,
                                 !.op = "zone", !.arg = <<pos>>,
                                 !.was = probe.c, !.movement = <<0, 0>>]
    /\ UNCHANGED <<simvars, idxvars, loop>>

\* NoteCutDirectionEnum.from_movement(x, y): the probe gets a new direction
FromMovement ==
    /\ ~probe.raised
    /\ \E m \in Moves :
          probe' = [probe EXCEPT !.d = from_movement(m[1], m[2]),
                                 !.d0 = from_movement(m[1], m[2]), !.n = 0,
                                 !.op = "from_movement", !.arg = m,
                                 !.was = probe.c, !.movement = <<0, 0>>]
    /\ UNCHANGED <<simvars, idxvars, loop>>

\* d.into_movement()
IntoMovement ==
    /\ ~probe.raised
    /\ probe.op # "into_movement"
    /\ probe' = [probe EXCEPT !.movement = into_movement(probe.d),
                              !.op = "into_movement", !.arg = <<probe.d>>,
                              !.was = probe.c]
    /\ UNCHANGED <<simvars, idxvars, loop>>

\* from_movement applied to the result of d.into_movement()
FromIntoMovement ==
    /\ ~probe.raised
    /\ probe.op = "into_movement"
    /\ \E d \in {from_movement(probe.movement[1], probe.movement[2])} :
          probe' = [probe EXCEPT !.d = d, !.d0 = d, !.n = 0,
                                 !.op = "from_into_movement",
                                 !.arg = <<probe.d>>,
                                 !.was = probe.c, !.movement = <<0, 0>>]
    /\ UNCHANGED <<simvars, idxvars, loop>>

NextGeom ==
    \/ Opposite \/ Follow \/ Adapt \/ Zone
    \/ FromMovement \/ IntoMovement \/ FromIntoMovement

----------------------------------------------------------------------------
(* The attention loop of convert_beatsets_osu2saber: the zone of a current *)
(* entry at (cx, cy) in the bounding box iw = <<<<x0, x1>>, <<y0, y1>>>>.   *)
(* math.floor(3 * (a / w)) on floats is (3 * a) \div w for the integers    *)
(* 0 < a < w of a playfield.                                               *)

\* (variant: the third of the interior rounded up)
canvas_column_up(cx, iw) ==
    IF iw[1][1] = iw[1][2] THEN 2
    ELSE IF cx <= iw[1][1] THEN 1
    ELSE IF cx >= iw[1][2] THEN 3
    ELSE 1 + ((3 * (cx - iw[1][1]) + (iw[1][2] - iw[1][1]) - 1)
                 \div (iw[1][2] - iw[1][1]))

\* lines 256-265: the contribution of cx to pos
canvas_column(cx, iw) ==
    IF iw[1][1] = iw[1][2] THEN 2
    ELSE IF cx <= iw[1][1] THEN 1
    ELSE IF cx >= iw[1][2] THEN 3
    ELSE 1 + ((3 * (cx - iw[1][1])) \div (iw[1][2] - iw[1][1]))

\* lines 267-275: the contribution of cy to pos
canvas_row(cy, iw) ==
    IF iw[2][1] = iw[2][2] THEN 3
    ELSE IF cy <= iw[2][1] THEN 0
    ELSE IF cy >= iw[2][2] THEN 6
    ELSE 3 * ((3 * (cy - iw[2][1])) \div (iw[2][2] - iw[2][1]))

canvas_pos(cx, cy, iw) == canvas_column(cx, iw) + canvas_row(cy, iw)

\* coordinates of hit objects and of bounding boxes: 0..MaxCoord
MaxCoord == 4
Boxes == {b \in (0..MaxCoord) \X (0..MaxCoord) : b[1] <= b[2]}

\* a current entry at (cx, cy) and a bounding box
InitCanvas ==
    probe \in {[NoProbe EXCEPT !.op = "box", !.arg = <<cx, cy, <<bx, by>>>>] :
                  cx \in 0..MaxCoord, cy \in 0..MaxCoord,
                  bx \in Boxes, by \in Boxes}

\* lines 254-277: pos is computed and NoteCanvasPositionEnum(pos) is built,
\* which raises ValueError when pos is no member
CanvasPosition ==
    /\ probe.op = "box"
    /\ \E pos \in {canvas_pos(probe.arg[1], probe.arg[2], probe.arg[3])} :
          probe' = [probe EXCEPT !.op = "canvas_pos", !.pos = pos,
                                 !.raised = pos \notin NoteCanvasPositionEnum]
    /\ UNCHANGED <<simvars, idxvars, loop>>

NextCanvas == CanvasPosition

----------------------------------------------------------------------------
(* The attention loop of convert_beatsets_osu2saber: break detection.      *)
(* The index holds two bursts of entries; the second burst starts          *)
(* PAST_LOOK + 1000 after the last point of interest of the first.         *)

PAST_LOOK == 3000
FUTURE_LOOK == 3000

\* a burst is at most BurstLen * 1000 long and has at most MaxBurst entries
BurstLen == 2
MaxBurst == 2

\* an entry of a burst is <<start, end>> in thousands from the start of the
\* burst: a point when start = end, a span otherwise
BurstEntries == {e \in (0..BurstLen) \X (0..BurstLen) : e[1] <= e[2]}

\* the entries of a burst in the order of their start (osu_hit_objects.sort)
RECURSIVE BurstsOf(_)
BurstsOf(n) ==
    IF n = 0 THEN {<<>>}
    ELSE {Append(b, e) : b \in BurstsOf(n - 1), e \in BurstEntries}

Bursts ==
    {b \in UNION {BurstsOf(n) : n \in 1..MaxBurst} :
        /\ b[1][1] = 0
        /\ \A i \in 1..Len(b) - 1 : b[i][1] <= b[i + 1][1]}

\* the largest end of a burst
burst_end(b) == CHOOSE x \in {b[i][2] : i \in 1..Len(b)} :
                    \A i \in 1..Len(b) : b[i][2] <= x

\* the burst moved to start at time t
burst_at(b, t) ==
    [i \in 1..Len(b) |-> <<t + 1000 * b[i][1], t + 1000 * b[i][2]>>]

\* the hit objects of two bursts, the first starting at t
two_bursts(t, b1, b2) ==
    burst_at(b1, t)
       \o burst_at(b2, t + 1000 * burst_end(b1) + PAST_LOOK + 1000)

\* lines 142-151: every hit object is appended as a point or as a span; the
\* value is the number of the hit object
RECURSIVE index_of(_, _, _)
index_of(idx, objects, n) ==
    IF objects = <<>> THEN idx
    ELSE LET o == Head(objects)
         IN index_of(
                IF o[1] = o[2]
                THEN [idx EXCEPT !.events = append_point(@, o[1], n)]
                ELSE [idx EXCEPT !.spans = append_span(@, o, n)],
                Tail(objects), n + 1)

\* new_combo() and is_kiai() of a hit object
NoFlags == [new_combo |-> 0, is_kiai |-> FALSE]
Flags == [new_combo : {0, 1}, is_kiai : BOOLEAN]

\* a hold whose endTime lies before its time, as a file may give it
\* (_compute_finish_time takes endTime as it is)
InvertedHolds ==
    {<<1000 * e[2], 1000 * e[1]>> : e \in {x \in BurstEntries : x[1] < x[2]}}

\* the hit objects of a beatmap with their flags and its mode: two bursts
\* without flags, or one burst with any flags in any mode, or such a hold
\* alone or after a hit circle
Beatmaps ==
    {[objects |-> two_bursts(t, b1, b2),
      flags |-> [n \in 1..Len(b1) + Len(b2) |-> NoFlags],
      multi_key |-> FALSE] : t \in {0, 1000}, b1 \in Bursts, b2 \in Bursts}
    \cup UNION {[objects : {burst_at(b, 0)},
                 flags : [1..Len(b) -> Flags],
                 multi_key : BOOLEAN] : b \in Bursts}
    \cup {[objects |-> head \o <<h>>,
           flags |-> [n \in 1..Len(head) + 1 |-> NoFlags],
           multi_key |-> TRUE] : head \in {<<>>, <<<<0, 0>>>>},
                                 h \in InvertedHolds}

InitLoop ==
    /\ InitSim
    /\ probe = NoProbe
    /\ derived = NoIndex
    /\ copy = NoCopy
    /\ answer = NoAnswer
    /\ \E beatmap \in Beatmaps :
          \E idx \in {index_of([events |-> <<>>, spans |-> <<>>],
                                beatmap.objects, 1)} :
              /\ events = idx.events
              /\ spans = idx.spans
              /\ loop = [NoLoop EXCEPT
                           !.pc = "loop",
                           !.pois = points_of_interest(idx.events, idx.spans),
                           !.objects = beatmap.objects,
                           !.flags = beatmap.flags,
                           !.multi_key = beatmap.multi_key]

\* the key of line 196: (start_time(), new_combo(), is_kiai()) of the hit
\* object number n, False before True
hit_key_less(L, n, m) ==
    LET k == <<L.objects[n][1], L.flags[n].new_combo,
               IF L.flags[n].is_kiai THEN 1 ELSE 0>>
        j == <<L.objects[m][1], L.flags[m].new_combo,
               IF L.flags[m].is_kiai THEN 1 ELSE 0>>
    IN \/ k[1] < j[1]
       \/ k[1] = j[1] /\ k[2] < j[2]
       \/ k[1] = j[1] /\ k[2] = j[2] /\ k[3] < j[3]

\* sorted(.., key=..) of lines 195-196, stable
RECURSIVE hit_insert(_, _, _)
hit_insert(L, s, n) ==
    IF s = <<>> THEN <<n>>
    ELSE IF hit_key_less(L, n, Head(s)) THEN <<n>> \o s
    ELSE <<Head(s)>> \o hit_insert(L, Tail(s), n)

RECURSIVE hit_sorted_from(_, _, _)
hit_sorted_from(L, done, rest) ==
    IF rest = <<>> THEN done
    ELSE hit_sorted_from(L, hit_insert(L, done, Head(rest)), Tail(rest))

hit_sorted(L, values) == hit_sorted_from(L, <<>>, values)

\* lines 246-252 for the current entries in their order: a kiai toggle is
\* recorded when the entry's flag differs from the latest toggle, a combo
\* marker for every entry whose new_combo() is not 0
RECURSIVE track_flags(_, _, _)
track_flags(L, point_of_interest, current) ==
    IF current = <<>> THEN L
    ELSE LET f == L.flags[Head(current)]
             toggled == \/ Len(L.kiais) <= 0
                        \/ L.kiais[Len(L.kiais)][2] # f.is_kiai
         IN track_flags(
                [L EXCEPT
                   !.kiais = IF toggled
                             THEN Append(@, <<point_of_interest, f.is_kiai>>)
                             ELSE @,
                   !.combos = IF f.new_combo # 0
                              THEN Append(@, <<point_of_interest, f.new_combo>>)
                              ELSE @],
                point_of_interest, Tail(current))

\* line 279: kiais[-1][1] and not multi_key
double_hand_of(L) == L.kiais[Len(L.kiais)][2] /\ ~L.multi_key

\* (variant: the hand given by the number of kiai toggles)
preferred_hand_of_kiais(L) == Len(L.kiais) % 2

\* line 280: NoteTypeEnum(len(combos) % 2)
preferred_hand_of(L) == Len(L.combos) % 2

\* lines 195-203, 246-252, 279-281 and 294 of one iteration: the break
\* test, the kiai toggles and combo markers, the mode and the preferred
\* hand handed to move_to, and LPOI.  min() of line 204 raises ValueError
\* when there is no current entry.
LoopIteration ==
    /\ loop.pc = "loop"
    /\ loop.at < Len(loop.pois)
    /\ LET point_of_interest == loop.pois[loop.at + 1]
           active_points_of_interest ==
               hit_sorted(loop, active_at_point(events, spans,
                                                point_of_interest))
           past_ones ==
               active_at_span(events, spans,
                              <<point_of_interest - PAST_LOOK,
                                point_of_interest>>)
           broken ==
               [loop EXCEPT
                  !.breaks =
                      IF Len(past_ones) <= Len(active_points_of_interest)
                      THEN Append(@, <<loop.LPOI, point_of_interest>>)
                      ELSE @]
       IN /\ IF active_points_of_interest = <<>>
             THEN loop' = [broken EXCEPT !.pc = "raised"]
             ELSE \E tracked \in {track_flags(broken, point_of_interest,
                                               active_points_of_interest)} :
                     loop' = [tracked EXCEPT
                                !.active = active_points_of_interest,
                                !.double_hand = double_hand_of(tracked),
                                !.preferred_hand = preferred_hand_of(tracked),
                                !.LPOI = point_of_interest,
                                !.at = @ + 1]
          /\ clock' = point_of_interest
    /\ UNCHANGED <<hands, coreography_ids, coreography_contents,
                   coreography_hand_ids, last_coreography_hand_ids, raised,
                   call, pending, fed, calls, difficulty, idxvars, probe>>

\* lines 297-302: the first break is left out when it starts at 0, the
\* others are moved inward by FUTURE_LOOK / 6 and converted to beats
breaks_adj_of(breaks) ==
    LET sidx == IF Len(breaks) > 0 /\ breaks[1][1] = 0 THEN 1 ELSE 0
    IN [i \in 1..Len(breaks) - sidx |->
           <<convert_to_beat(breaks[i + sidx][1] + FUTURE_LOOK \div 6),
             convert_to_beat(breaks[i + sidx][2] - FUTURE_LOOK \div 6)>>]

LoopEnd ==
    /\ loop.pc = "loop"
    /\ loop.at = Len(loop.pois)
    /\ loop' = [loop EXCEPT !.pc = "built",
                            !.breaks_adj = breaks_adj_of(loop.breaks)]
    /\ UNCHANGED <<simvars, idxvars, probe>>

NextLoop == LoopIteration \/ LoopEnd

----------------------------------------------------------------------------
(* Specifications *)

Init == InitSim /\ InitIdxIdle /\ probe = NoProbe /\ loop = NoLoop
InitG == InitSim /\ InitIdxIdle /\ InitProbe /\ loop = NoLoop
InitBox == InitSim /\ InitIdxIdle /\ InitCanvas /\ loop = NoLoop

\* the simulator driven by the attention loop
SpecSim == Init /\ [][NextSim]_vars
\* the simulator fed single instantaneous points
SpecSolo == Init /\ [][NextSolo]_vars
\* the attention loop
SpecLoop == InitLoop /\ [][NextLoop]_vars
\* the index
SpecIdx == Init /\ [][NextIdx]_vars
\* the direction and coordinate helpers
SpecGeom == InitG /\ [][NextGeom]_vars
SpecGrid == Init /\ [][NextGrid]_vars
\* the zone of a current entry
SpecCanvas == InitBox /\ [][NextCanvas]_vars

----------------------------------------------------------------------------
(* Properties of the simulator (SpecSim) *)

SeqOfIds(poas) == [i \in 1..Len(poas) |-> poas[i][1]]
Min(a, b) == IF a <= b THEN a ELSE b

\* two records occupy a common stretch of time
RecordsOverlap(a, b) ==
    a.time_start < b.time_finish /\ b.time_start < a.time_finish

\* C1: in single-hand and in both-hands mode a hand is given a new record
\* only when it is free, so the records committed to one hand never overlap
\* in time.
C1_RecordOnlyToFreeHand ==
    /\ call.busy = {}
    /\ \A j, k \in DOMAIN coreography_contents :
          (j # k /\ coreography_contents[j].note_type
                      = coreography_contents[k].note_type)
          => ~RecordsOverlap(coreography_contents[j], coreography_contents[k])

\* C2: with pairwise distinct identities no identity is committed twice: the
\* ordered output list never holds an identity twice and no stored record is
\* overwritten by a record created for another point.
C2_IdentityCommittedOnce ==
    /\ \A i, j \in 1..Len(coreography_ids) :
          i # j => coreography_ids[i] # coreography_ids[j]
    /\ Cardinality(DOMAIN coreography_contents) = Len(coreography_ids)
    /\ \A i \in 1..Len(call.assigned) :
          coreography_contents[call.assigned[i][3]].poa = call.assigned[i][1]

C4_SilentDrop ==
    /\ [](\A p \in pending :
             \A k \in DOMAIN coreography_contents :
                 coreography_contents[k].poa # p)
    /\ [][call'.free = {} =>
            /\ ~raised'
            /\ call'.assigned = <<>>
            /\ call'.dropped = SeqOfIds(call'.arrivals)
            /\ hands' = hands
            /\ coreography_ids' = coreography_ids
            /\ coreography_contents' = coreography_contents
            /\ coreography_hand_ids' = coreography_hand_ids
            /\ last_coreography_hand_ids' = last_coreography_hand_ids]_vars

\* a point arrived while both hands were serving unfinished records
C4_Witness ==
    /\ call # NoCall
    /\ call.free = {}
    /\ call.dropped # <<>>
    /\ call.dropped[1] \in pending
    /\ \A h \in HandEnums : coreography_hand_ids[h] # -1

\* C9: every slider emitted by build_coreography has the tail direction
\* opposite to its head direction, and its head direction is the direction
\* of the note emitted for the same record.
C9_ArcTailOppositeOfHead ==
    difficulty # NoDifficulty =>
        \A i \in 1..Len(difficulty.sliders) :
            LET slider == difficulty.sliders[i]
            IN /\ slider.tailCutDirection = opposite(slider.headCutDirection)
               /\ slider.tailCutDirection # slider.headCutDirection
               /\ \E j \in 1..Len(difficulty.notes) :
                     difficulty.notes[j].of = slider.of
               /\ \A j \in 1..Len(difficulty.notes) :
                     difficulty.notes[j].of = slider.of
                     => difficulty.notes[j].cutDirection
                            = slider.headCutDirection

\* a slider was built for an arc whose end had been moved by the smoothing
C9_Witness ==
    /\ difficulty # NoDifficulty
    /\ \E i \in 1..Len(difficulty.sliders) :
          <<difficulty.sliders[i].tailLineIndex,
            difficulty.sliders[i].tailLineLayer>>
          # <<difficulty.sliders[i].headLineIndex,
              difficulty.sliders[i].headLineLayer>>

\* the entries of the identity list whose record is an arc when the
\* coreography is built, in order
arc_entries ==
    SelectSeq(coreography_ids,
              LAMBDA i : coreography_contents[i].time_start
                         # coreography_contents[i].time_finish)

\* C17: build_coreography emits exactly one note per entry of the ordered
\* identity list, in that order, with the stored record's start time (in
\* beats), start coordinate, hand role and cut direction; and one slider per
\* entry whose record has a start time different from its finish time, in
\* that order, from the start coordinate and time to the end coordinate and
\* finish time.
C17_OneNotePerEntry ==
    difficulty # NoDifficulty =>
        /\ Len(difficulty.notes) = Len(coreography_ids)
        /\ \A k \in 1..Len(coreography_ids) :
              LET r == coreography_contents[coreography_ids[k]]
                  note == difficulty.notes[k]
              IN /\ note.of = coreography_ids[k]
                 /\ note.time = convert_to_beat(r.time_start)
                 /\ <<note.lineIndex, note.lineLayer>> = r.coordinate
                 /\ note.type = r.note_type
                 /\ note.cutDirection = r.cut_direction
        /\ Len(difficulty.sliders) = Len(arc_entries)
        /\ \A k \in 1..Len(arc_entries) :
              LET r == coreography_contents[arc_entries[k]]
                  slider == difficulty.sliders[k]
              IN /\ slider.of = arc_entries[k]
                 /\ slider.colorType = r.note_type
                 /\ slider.headTime = convert_to_beat(r.time_start)
                 /\ <<slider.headLineIndex, slider.headLineLayer>>
                        = r.coordinate
                 /\ slider.tailTime = convert_to_beat(r.time_finish)
                 /\ <<slider.tailLineIndex, slider.tailLineLayer>>
                        = r.coordinate_end

\* a coreography was built from an arc that ends away from its start and
\* from an instantaneous record
C17_Witness ==
    /\ difficulty # NoDifficulty
    /\ Len(difficulty.notes) >= 2
    /\ Len(difficulty.sliders) >= 1
    /\ Len(difficulty.sliders) < Len(difficulty.notes)
    /\ \E k \in 1..Len(coreography_ids) :
          LET r == coreography_contents[coreography_ids[k]]
          IN r.time_start # r.time_finish /\ r.coordinate_end # r.coordinate

\* C18: for the k-th break (s, e) handed to build_coreography the obstacles
\* 2k-1 and 2k are full-height walls of width 1 at the far-left column 0 and
\* the far-right column 3, starting at s and lasting e - s in beats; there
\* are no other obstacles, none for an empty break list, and the notes and
\* sliders are those built without any break.
C18_TwoWallsPerBreak ==
    difficulty # NoDifficulty =>
        LET breaks == loop.breaks_adj
            wall(k, w) == [time |-> convert_to_beat(breaks[k][1]),
                           lineIndex |-> w,
                           type |-> "FullHeightWall",
                           duration |-> convert_to_beat(breaks[k][2]
                                                        - breaks[k][1]),
                           width |-> 1]
            plain == build_coreography(coreography_contents,
                                       coreography_ids, <<>>)
        IN /\ Len(difficulty.obstacles) = 2 * Len(breaks)
           /\ \A k \in 1..Len(breaks) :
                 /\ difficulty.obstacles[2 * k - 1] = wall(k, 0)
                 /\ difficulty.obstacles[2 * k] = wall(k, 3)
           /\ breaks = <<>> => difficulty.obstacles = <<>>
           /\ difficulty.notes = plain.notes
           /\ difficulty.sliders = plain.sliders

\* a coreography with notes was built with two breaks
C18_Witness ==
    /\ difficulty # NoDifficulty
    /\ Len(loop.breaks_adj) = 2
    /\ Len(difficulty.obstacles) = 4
    /\ difficulty.notes # <<>>

\* hand h is given a record by the call whose digest is c
given_to(c, h) == \E i \in 1..Len(c.assigned) : c.assigned[i][2] = h

arrival(beat_id) ==
    CHOOSE p \in Range(call.arrivals) : p[1] = beat_id

\* p is processed before q according to: arcs first, then the longer span,
\* then the earlier start, then the lower zone
arcs_first(p, q) ==
    LET arc_p == p[2][1] # p[2][2]
        arc_q == q[2][1] # q[2][2]
        len_p == p[2][2] - p[2][1]
        len_q == q[2][2] - q[2][1]
    IN \/ arc_p /\ ~arc_q
       \/ arc_p = arc_q /\ len_p > len_q
       \/ arc_p = arc_q /\ len_p = len_q /\ p[2][1] < q[2][1]
       \/ arc_p = arc_q /\ len_p = len_q /\ p[2][1] = q[2][1] /\ p[3] <= q[3]

\* C14: the points arriving in one move_to call are processed arcs first,
\* then instantaneous points, among arcs the longer first, then the earlier
\* start, then the lower zone; so no arc is dropped while an instantaneous
\* point arriving in the same call is assigned.
C14_ArcsBeforeInstants ==
    call # NoCall =>
        /\ \A i, j \in 1..Len(call.arrivals) :
              i < j => arcs_first(call.arrivals[i], call.arrivals[j])
        /\ \A d \in Range(call.dropped) :
              \A i \in 1..Len(call.assigned) :
                 LET p == arrival(d)
                     q == arrival(call.assigned[i][1])
                 IN ~(p[2][1] # p[2][2] /\ q[2][1] = q[2][2])

\* C15: when a call gives a hand a new record and the record the hand
\* released last is an arc that finished at most 750 before, then after the
\* call that arc finishes when and where the new record starts and, in
\* single-hand mode, the new record is cut opposite to the arc; otherwise
\* the record released last is left as it was.
C15_ArcContinuitySmoothing ==
    [][(clock' = clock /\ difficulty' = difficulty) =>
         \A i \in 1..Len(call'.assigned) :
            LET h == call'.assigned[i][2]
                last_id == call'.released.last_ids[h]
                previous == coreography_contents[last_id]
                new == coreography_contents'[call'.assigned[i][3]]
            IN last_id \in DOMAIN coreography_contents =>
                 IF /\ is_arc(previous)
                    /\ Abs(previous.time_finish - clock) <= 750
                 THEN /\ coreography_contents'[last_id].time_finish
                            = new.time_start
                      /\ coreography_contents'[last_id].coordinate_end
                            = new.coordinate
                      /\ ~call'.both_hands =>
                            new.cut_direction
                               = opposite(coreography_contents'[last_id]
                                              .cut_direction)
                 ELSE coreography_contents'[last_id] = previous]_vars

\* C16: every arc-involved cut has a concrete direction: a record committed
\* for a point that is an arc, or to a hand that was on an arc when the
\* record was assigned, has a cut direction other than Any, and every stored
\* arc keeps a concrete direction.
C16_ArcCutsAreConcrete ==
    /\ [](\A k \in DOMAIN coreography_contents :
             is_arc(coreography_contents[k])
                => coreography_contents[k].cut_direction # "Any")
    /\ [][(clock' = clock /\ difficulty' = difficulty) =>
            \A i \in 1..Len(call'.assigned) :
               LET h == call'.assigned[i][2]
                   p == CHOOSE q \in Range(call'.arrivals) :
                            q[1] = call'.assigned[i][1]
                   new == coreography_contents'[call'.assigned[i][3]]
               IN (p[2][1] # p[2][2] \/ call'.released.hands[h].on_arc)
                     => new.cut_direction # "Any"]_vars

----------------------------------------------------------------------------
(* Properties of the simulator fed single instantaneous points (SpecSolo) *)

\* C11: when every call, at a strictly later time than the one before,
\* passes one instantaneous point with a fresh identity in single-hand mode,
\* no point is dropped, each point goes to the first hand of the preferred
\* order of its call, and build_coreography without breaks yields exactly
\* one note per point, no slider and no obstacle.
C11_SoloPointsAllAssigned ==
    /\ pending = {}
    /\ Range(coreography_ids) = fed
    /\ Len(coreography_ids) = calls
    /\ call # NoCall =>
          /\ call.dropped = <<>>
          /\ call.assigned =
                << <<call.points_of_attention[1][1], call.preferred_hands[1],
                     call.points_of_attention[1][1]>> >>
    /\ difficulty # NoDifficulty =>
          /\ Len(difficulty.notes) = calls
          /\ \A i \in 1..calls :
                difficulty.notes[i]
                   = note_of(coreography_contents, coreography_ids[i])
          /\ difficulty.sliders = <<>>
          /\ difficulty.obstacles = <<>>

\* four points were fed, the last to the right hand as the first preferred
\* hand, and the difficulty was built
C11_Witness ==
    /\ calls = 4
    /\ call.preferred_hands[1] = RightBlueNote
    /\ call.assigned[1][2] = RightBlueNote
    /\ difficulty # NoDifficulty
    /\ Len(difficulty.notes) = 4

----------------------------------------------------------------------------
(* Properties of the attention loop (SpecLoop) *)

\* the position in pois of the last point of interest of the first burst
gap_at == CHOOSE g \in 1..Len(loop.pois) - 1 :
              loop.pois[g + 1] - loop.pois[g] = PAST_LOOK + 1000

\* C12: two bursts separated by a gap of 4000 give, besides the initial
\* break that starts at 0, exactly one break: it runs from the last point of
\* interest of the first burst to the first of the second; no break lies
\* inside a burst; the break handed to the assembler is the gap moved inward
\* by 500 on both sides.
C12_OneBreakForTheGap ==
    (/\ loop.pc = "built"
     /\ \E g \in 1..Len(loop.pois) - 1 :
           loop.pois[g + 1] - loop.pois[g] = PAST_LOOK + 1000) =>
        /\ loop.breaks = << <<0, loop.pois[1]>>,
                            <<loop.pois[gap_at], loop.pois[gap_at + 1]>> >>
        /\ loop.breaks_adj =
              << <<convert_to_beat(loop.pois[gap_at] + 500),
                   convert_to_beat(loop.pois[gap_at + 1] - 500)>> >>

\* C37: every break recorded by the attention loop, other than the
\* discarded initial one, is longer than twice the inward margin
\* (2 * FUTURE_LOOK / 6 = 1000), so that the obstacle made from it has a
\* positive duration.
C37_BreaksLongerThanMargins ==
    loop.pc = "built" =>
        \A i \in 1..Len(loop.breaks) :
            (i > 1 \/ loop.breaks[1][1] # 0) =>
                loop.breaks[i][2] - loop.breaks[i][1] >
                    2 * (FUTURE_LOOK \div 6)

\* the hit objects that are current at the point of interest t: the points
\* at t and the spans around t
current_at(t) ==
    {n \in 1..Len(loop.objects) :
        loop.objects[n][1] <= t /\ t <= loop.objects[n][2]}

\* the combo markers among the current entries at t
markers_at(t) == {n \in current_at(t) : loop.flags[n].new_combo # 0}

\* the hand preferred before the iteration that follows: Left before the
\* first
hand_before == IF loop.at = 0 THEN LeftRedNote ELSE loop.preferred_hand

\* C32 as stated: both_hands is true exactly when the latest recorded kiai
\* toggle is active and the mode is not mania; the preferred hand is Left
\* when the count of combo markers so far is even and Right when it is odd;
\* the preferred hand flips at every point of interest where a hit object
\* with a combo marker starts.
C32_HandFlipsAtComboBoundary ==
    /\ [](loop.at > 0 /\ loop.pc # "idle" =>
            /\ loop.double_hand
                 <=> (loop.kiais[Len(loop.kiais)][2] /\ ~loop.multi_key)
            /\ loop.preferred_hand
                 = (IF Len(loop.combos) % 2 = 0 THEN LeftRedNote
                    ELSE RightBlueNote))
    /\ [][(loop.pc = "loop" /\ loop'.at = loop.at + 1) =>
            ((\E n \in markers_at(loop'.LPOI) :
                 loop.objects[n][1] = loop'.LPOI)
             => loop'.preferred_hand # hand_before)
        ]_vars

\* C32 as amended: both_hands is true exactly when the latest recorded kiai
\* toggle, which is the kiai flag of the last current entry in the order of
\* (start, combo flag, kiai flag), is active and the mode is not mania; the
\* preferred hand is Left when the count of recorded combo markers is even
\* and Right when it is odd; every point of interest records one marker for
\* each of its current entries that carries one, a span still current
\* included, so that the preferred hand flips from one point of interest
\* to the next exactly when the number of such entries is odd.
C32_HandFlipsAtOddMarkers ==
    /\ [](loop.at > 0 /\ loop.pc # "idle" =>
            /\ loop.double_hand
                 <=> (loop.kiais[Len(loop.kiais)][2] /\ ~loop.multi_key)
            /\ loop.kiais[Len(loop.kiais)][2]
                 = loop.flags[loop.active[Len(loop.active)]].is_kiai
            /\ \A i \in 1..Len(loop.kiais) - 1 :
                  loop.kiais[i][2] # loop.kiais[i + 1][2]
            /\ loop.preferred_hand
                 = (IF Len(loop.combos) % 2 = 0 THEN LeftRedNote
                    ELSE RightBlueNote))
    /\ [][(loop.pc = "loop" /\ loop'.at = loop.at + 1) =>
            /\ Len(loop'.combos)
                 = Len(loop.combos) + Cardinality(markers_at(loop'.LPOI))
            /\ loop'.preferred_hand # hand_before
                 <=> Cardinality(markers_at(loop'.LPOI)) % 2 = 1
        ]_vars

\* a span with a combo marker was recorded at its start and again at the
\* start of the next hit object, in kiai time outside mania
C32_Witness ==
    /\ loop.at = 2
    /\ Len(loop.combos) = 2
    /\ loop.combos[1][1] < loop.combos[2][1]
    /\ Cardinality({n \in 1..Len(loop.flags) : loop.flags[n].new_combo # 0}) = 1
    /\ loop.preferred_hand = LeftRedNote
    /\ loop.double_hand

\* C33: at every point of interest the index has a current entry, so that
\* min and max over the current entries do not raise.
C33_CurrentEntriesNeverEmpty ==
    /\ loop.pc # "raised"
    /\ loop.pc \in {"loop", "built"} =>
          \A i \in 1..Len(loop.pois) :
             active_at_point(events, spans, loop.pois[i]) # <<>>

----------------------------------------------------------------------------
(* Properties of the index (SpecIdx) *)

EventKeys == {events[i][1] : i \in 1..Len(events)}
SpanStarts == {spans[i][1][1] : i \in 1..Len(spans)}
SpanEnds == {spans[i][1][2] : i \in 1..Len(spans)}
\* the values stored as point events of an index, with their keys
PointEntries(ev) ==
    {<<ev[i][1], ev[i][2][j]>> : <<i, j>> \in
        {ij \in (1..Len(ev)) \X (1..MaxEntries + 1) : ij[2] <= Len(ev[ij[1]][2])}}

C6_SpanOverlapInclusive ==
    answer.op = "active_at_span" =>
        \A i \in 1..Len(spans) :
            LET a == spans[i][1][1]
                b == spans[i][1][2]
                lo == answer.arg[1]
                hi == answer.arg[2]
            IN (a <= b /\ lo <= hi) =>
                  (spans[i][2] \in Range(answer.result)
                     <=> \E x \in Keys : lo <= x /\ x <= hi /\ a <= x /\ x <= b)

\* a request that starts where a span ends is answered with that span
C6_Witness ==
    /\ answer.op = "active_at_span"
    /\ \E i \in 1..Len(spans) :
          /\ spans[i][1][1] < spans[i][1][2]
          /\ spans[i][1][2] = answer.arg[1]
          /\ answer.arg[1] < answer.arg[2]
          /\ spans[i][2] \in Range(answer.result)

\* C7: active_at_point(p) returns the value of a stored span (a, b) iff
\* a <= p <= b, and the value of a point event iff the event's key is p.
C7_PointContainment ==
    answer.op = "active_at_point" =>
        /\ \A i \in 1..Len(spans) :
              spans[i][2] \in Range(answer.result)
                 <=> (spans[i][1][1] <= answer.arg
                        /\ answer.arg <= spans[i][1][2])
        /\ \A e \in PointEntries(events) :
              e[2] \in Range(answer.result) <=> e[1] = answer.arg

\* the point asked for is the end of a span; a point event lies elsewhere
C7_Witness ==
    /\ answer.op = "active_at_point"
    /\ \E i \in 1..Len(spans) :
          /\ spans[i][1][1] < spans[i][1][2]
          /\ spans[i][1][2] = answer.arg
          /\ spans[i][2] \in Range(answer.result)
    /\ \E e \in PointEntries(events) :
          e[1] # answer.arg /\ e[2] \notin Range(answer.result)

\* C8: map_keys(f) turns every span whose start and end map to the same key
\* into a point event at that key, keeps every other span as the span
\* (f(start), f(end)), and returns no zero-length span.
C8_CollapsedSpanBecomesPoint ==
    derived # NoIndex =>
        /\ \A i \in 1..Len(spans) :
              LET nks == apply_mapper(derived.mapper, spans[i][1][1])
                  nke == apply_mapper(derived.mapper, spans[i][1][2])
                  v == spans[i][2]
              IN IF nks = nke
                 THEN /\ <<nks, v>> \in PointEntries(derived.events)
                      /\ \A j \in 1..Len(derived.spans) : derived.spans[j][2] # v
                 ELSE /\ <<<<nks, nke>>, v>> \in Range(derived.spans)
                      /\ \A e \in PointEntries(derived.events) : e[2] # v
        /\ \A j \in 1..Len(derived.spans) :
              derived.spans[j][1][1] # derived.spans[j][1][2]

\* a span with distinct coordinates was mapped onto one key
C8_Witness ==
    /\ derived # NoIndex
    /\ \E i \in 1..Len(spans) :
          /\ spans[i][1][1] # spans[i][1][2]
          /\ apply_mapper(derived.mapper, spans[i][1][1])
               = apply_mapper(derived.mapper, spans[i][1][2])
          /\ <<apply_mapper(derived.mapper, spans[i][1][1]), spans[i][2]>>
               \in PointEntries(derived.events)

\* the mapper is monotone non-decreasing on the keys
monotone(mapper) ==
    \A a, b \in Keys :
        a <= b => apply_mapper(mapper, a) <= apply_mapper(mapper, b)

\* C38: map_keys(f) keeps every entry exactly once: the result holds as many
\* values as the source, the value v of key k is stored under f(k), the
\* value of the span (a, b) under the span (f(a), f(b)) or, when both are
\* equal, under the point f(a); when f is monotone non-decreasing and every
\* source span has start < end, every span of the result has start < end.
C38_MapKeysKeepsEveryEntryOnce ==
    derived # NoIndex =>
        /\ entries(derived.events, derived.spans) = entries(events, spans)
        /\ \A e \in PointEntries(events) :
              <<apply_mapper(derived.mapper, e[1]), e[2]>>
                  \in PointEntries(derived.events)
        /\ \A i \in 1..Len(spans) :
              \E fa \in {apply_mapper(derived.mapper, spans[i][1][1])} :
              \E fb \in {apply_mapper(derived.mapper, spans[i][1][2])} :
                  IF fa = fb
                  THEN <<fa, spans[i][2]>> \in PointEntries(derived.events)
                  ELSE <<<<fa, fb>>, spans[i][2]>> \in Range(derived.spans)
        /\ (/\ monotone(derived.mapper)
            /\ \A i \in 1..Len(spans) : spans[i][1][1] < spans[i][1][2]) =>
               \A j \in 1..Len(derived.spans) :
                   derived.spans[j][1][1] < derived.spans[j][1][2]

\* a monotone mapper that is not the identity was applied to two points of
\* one key and to a span with start < end that stays a span
C38_Witness ==
    /\ derived # NoIndex
    /\ derived.mapper = "Quantize"
    /\ monotone(derived.mapper)
    /\ \E i \in 1..Len(events) : Len(events[i][2]) >= 2
    /\ Len(spans) >= 1
    /\ \A i \in 1..Len(spans) : spans[i][1][1] < spans[i][1][2]
    /\ \E j \in 1..Len(derived.spans) :
          derived.spans[j][1] # spans[1][1]

\* C21: whatever was appended, points_of_interest() is strictly increasing
\* (sorted, without duplicates) and contains every point-event key and every
\* span start; on an index without entries it is the empty list.
C21_PointsOfInterestSorted ==
    answer.op = "points_of_interest" =>
        /\ \A i \in 1..Len(answer.result), j \in 1..Len(answer.result) :
              i < j => answer.result[i] < answer.result[j]
        /\ EventKeys \subseteq Range(answer.result)
        /\ SpanStarts \subseteq Range(answer.result)
        /\ (events = <<>> /\ spans = <<>>) => answer.result = <<>>

\* a point key that is also the start of a span is returned once, after a
\* smaller coordinate that was appended later
C21_Witness ==
    /\ answer.op = "points_of_interest"
    /\ Len(answer.result) >= 2
    /\ \E k \in EventKeys \cap SpanStarts : k = answer.result[Len(answer.result)]
    /\ \E i \in 1..Len(spans) :
          /\ spans[i][1][1] = answer.result[1]
          /\ spans[i][2] = entries(events, spans)

\* the keys of the point events in the order they were entered
keys_of(ev) == [i \in 1..Len(ev) |-> ev[i][1]]

C20_RetainValueFilters ==
    copy.op = "retain_value" =>
        LET src == copy.source
            out == copy.returned
        IN /\ out.spans = SelectSeq(src.spans, LAMBDA e : e[2] \in copy.arg)
           /\ keys_of(out.events)
                = SelectSeq(keys_of(src.events),
                            LAMBDA k : \E v \in Range(events_get(src.events, k)) :
                                          v \in copy.arg)
           /\ \A k \in Keys :
                 events_get(out.events, k)
                   = SelectSeq(events_get(src.events, k),
                               LAMBDA v : v \in copy.arg)

\* a span and a point value were kept and another value was left out
C20_Witness ==
    /\ copy.op = "retain_value"
    /\ copy.returned.spans # <<>>
    /\ copy.returned.events # <<>>
    /\ entries(copy.returned.events, copy.returned.spans)
         < entries(copy.source.events, copy.source.spans)

\* the points of a list that start at now
arriving(points_of_attention, now) ==
    SeqFilter(points_of_attention,
              {p \in Range(points_of_attention) : p[2][1] = now})

\* C24: every record committed by move_to(now, ..) starts at now; a point
\* that does not start at now is neither assigned nor dropped, and the call
\* leaves the hands, the records and the output list as the call without
\* that point does: as the release step left them when no point arrives.
C24_OnlyArrivals ==
    [][(clock' = clock /\ difficulty' = difficulty) =>
         LET now == call'.now
             points == call'.points_of_attention
         IN /\ \A k \in 1..Len(call'.assigned) :
                  coreography_contents'[call'.assigned[k][3]].time_start = now
            /\ \A p \in Range(points) :
                  p[2][1] # now =>
                     /\ \A k \in 1..Len(call'.assigned) :
                           call'.assigned[k][1] # p[1]
                     /\ p[1] \notin Range(call'.dropped)
            /\ \A alone \in {move_to(sim_state, clock, call'.both_hands,
                                     call'.preferred_hands,
                                     arriving(points, now))} :
                  /\ hands' = alone.hands
                  /\ coreography_ids' = alone.ids
                  /\ coreography_contents' = alone.contents
                  /\ coreography_hand_ids' = alone.hand_ids
            /\ arriving(points, now) = <<>> =>
                  /\ hands' = call'.released.hands
                  /\ coreography_hand_ids' = call'.released.hand_ids
                  /\ coreography_ids' = coreography_ids
                  /\ coreography_contents' = coreography_contents
      ]_vars

\* a call was given a point that starts now, which a hand took, and one
\* that starts later
C24_Witness ==
    /\ call.now >= 0
    /\ call.assigned # <<>>
    /\ \E p \in Range(call.points_of_attention) :
          /\ p[2][1] > call.now
          /\ p[1] \notin Range(coreography_ids)

\* the hands given a record by the first k - 1 commits of the call c
taken_before(c, k) == {c.assigned[j][2] : j \in 1..(k - 1)}

\* C25: in single-hand mode every point a call assigns gets one record,
\* under its own identity, on the first hand of preferred_hands that is free
\* when the point is reached; in both-hands mode every point a call assigns
\* gets two records, one on each hand, under the identities id (left) and
\* id + 1 (right), with the same start and the same finish time.
C25_HandSelection ==
    [][(clock' = clock /\ difficulty' = difficulty) =>
         LET c == call'
             free(k) == c.free \ taken_before(c, k)
         IN IF ~c.both_hands
            THEN \A k \in 1..Len(c.assigned) :
                    LET a == c.assigned[k]
                    IN /\ a[3] = a[1]
                       /\ a[2] \in free(k)
                       /\ a[2] = c.preferred_hands[1]
                            \/ c.preferred_hands[1] \notin free(k)
                       /\ \A j \in 1..Len(c.assigned) : j # k => c.assigned[j][1] # a[1]
                       /\ coreography_contents'[a[3]].note_type = a[2]
            ELSE /\ Len(c.assigned) % 2 = 0
                 /\ \A k \in 1..Len(c.assigned) :
                       LET a == c.assigned[k]
                           b == c.assigned[IF k % 2 = 1 THEN k + 1 ELSE k - 1]
                           r == coreography_contents'[a[3]]
                           t == coreography_contents'[b[3]]
                       IN /\ a[3] = a[1] + a[2]
                          /\ b[1] = a[1]
                          /\ b[2] # a[2]
                          /\ r.note_type = a[2]
                          /\ r.time_start = t.time_start
                          /\ r.time_finish = t.time_finish
      ]_vars

\* a both-hands call gave a point to both hands while one of them was
\* still serving an earlier record
C25_Witness ==
    /\ call.both_hands
    /\ Len(call.assigned) = 2
    /\ Cardinality(call.free) = 1
    /\ call.assigned[1][3] + 1 = call.assigned[2][3]

\* the identities committed by the call c, in order
committed(c) == [k \in 1..Len(c.assigned) |-> c.assigned[k][3]]

----------------------------------------------------------------------------
(* Properties of the simulator on the nine zones (SpecGrid) *)

PlayableArea == (0..3) \X (0..2)

\* the record hand h was given last: the one it serves, else the one it
\* served last, else -1
latest_id(h) ==
    IF coreography_hand_ids[h] # -1 THEN coreography_hand_ids[h]
    ELSE last_coreography_hand_ids[h]

ZoneCell(zone) ==
    << CASE zone \in {1, 4, 7} -> 0 [] zone \in {2, 5, 8} -> 1 [] OTHER -> 2,
       CASE zone \in {1, 2, 3} -> 2 [] zone \in {4, 5, 6} -> 1 [] OTHER -> 0 >>

\* the zone of the point with identity beat_id in the call c
zone_of(c, beat_id) ==
    (CHOOSE p \in Range(c.points_of_attention) : p[1] = beat_id)[3]

\* C26: the start coordinate of every record a call commits is the cell of
\* the point's zone, moved right by one column for the right hand; every
\* note emitted lies in the playable area, a left-hand note in the columns
\* 0..2, a right-hand note in the columns 1..3, rows 0..2.
C26_RecordAtZoneCell ==
    /\ [][(clock' = clock /\ difficulty' = difficulty) =>
            \A k \in 1..Len(call'.assigned) :
               LET a == call'.assigned[k]
                   cell == ZoneCell(zone_of(call', a[1]))
               IN coreography_contents'[a[3]].coordinate
                     = <<cell[1] + (IF a[2] = RightBlueNote THEN 1 ELSE 0),
                         cell[2]>>
         ]_vars
    /\ [](difficulty # NoDifficulty =>
            \A k \in 1..Len(difficulty.notes) :
               LET note == difficulty.notes[k]
               IN /\ note.lineLayer \in 0..2
                  /\ note.type = LeftRedNote => note.lineIndex \in 0..2
                  /\ note.type = RightBlueNote => note.lineIndex \in 1..3)

\* notes were emitted in the top left zone for the left hand and in the
\* bottom right zone for the right hand
C26_Witness ==
    /\ difficulty # NoDifficulty
    /\ \E k \in 1..Len(difficulty.notes) :
          /\ difficulty.notes[k].type = LeftRedNote
          /\ difficulty.notes[k].lineIndex = 0
          /\ difficulty.notes[k].lineLayer = 2
    /\ \E k \in 1..Len(difficulty.notes) :
          /\ difficulty.notes[k].type = RightBlueNote
          /\ difficulty.notes[k].lineIndex = 3
          /\ difficulty.notes[k].lineLayer = 0

\* the record hand h had released last when the call c reached its points,
\* in the records as they were before the call (none: last_record_known is
\* false)
last_record_known(c, h) == c.released.last_ids[h] \in DOMAIN coreography_contents
last_record(c, h) == coreography_contents[c.released.last_ids[h]]

same_place_as_last(c, k, r) ==
    /\ ~is_arc(r)
    /\ last_record_known(c, c.assigned[k][2])
    /\ ~is_arc(last_record(c, c.assigned[k][2]))
    /\ last_record(c, c.assigned[k][2]).coordinate = r.coordinate

C34_RecordsReadOnly ==
    [][\A id_ \in DOMAIN coreography_contents :
          /\ id_ \in DOMAIN coreography_contents'
          /\ LET old == coreography_contents[id_]
                 new == coreography_contents'[id_]
             IN /\ new.time_start = old.time_start
                /\ new.coordinate = old.coordinate
                /\ new.note_type = old.note_type
                /\ new.cut_direction = old.cut_direction
                /\ ~is_arc(old) => new = old
                /\ new # old =>
                      \E k \in 1..Len(call'.assigned) :
                         /\ call'.released.last_ids[call'.assigned[k][2]] = id_
                         /\ Abs(old.time_finish - call'.now) <= SmoothWindow
                         /\ new.time_finish = call'.now
      ]_vars

\* C35: move_to being called at non-decreasing times, the output list is in
\* the order of the records' start times, and build_coreography emits the
\* notes in non-decreasing time order.
C35_OutputInTimeOrder ==
    /\ \A i \in 1..Len(coreography_ids) - 1 :
          coreography_contents[coreography_ids[i]].time_start
             <= coreography_contents[coreography_ids[i + 1]].time_start
    /\ difficulty # NoDifficulty =>
          \A i \in 1..Len(difficulty.notes) - 1 :
             difficulty.notes[i].time <= difficulty.notes[i + 1].time

\* the assignments of the call c that serve the same point as its
\* assignment k and come after it
second_hands(c, k) ==
    {j \in (k + 1)..Len(c.assigned) : c.assigned[j][1] = c.assigned[k][1]}

\* the assignment k of the call c went through the arc-continuity
\* smoothing: the hand's previous record, as it was before the call, is an
\* arc that finishes within SmoothWindow of the point's start
smoothed(c, k) ==
    LET last_id == c.released.last_ids[c.assigned[k][2]]
    IN /\ last_id \in DOMAIN coreography_contents
       /\ is_arc(coreography_contents[last_id])
       /\ Abs(coreography_contents[last_id].time_finish - c.now) <= SmoothWindow

\* C29 as stated, for calls that find both hands free: in both hands mode
\* the record of the second hand of a point has the cut direction of the
\* record of the first hand.
C29_SecondHandFollowsFirst ==
    [][(/\ clock' = clock /\ difficulty' = difficulty
        /\ call'.both_hands /\ call'.busy = {}) =>
         \A k \in 1..Len(call'.assigned) : \A j \in second_hands(call', k) :
            coreography_contents'[call'.assigned[j][3]].cut_direction
              = coreography_contents'[call'.assigned[k][3]].cut_direction
      ]_vars

\* C29 as amended: in both hands mode, when both hands' assignments for a
\* point go through the arc-continuity smoothing, the record of the second
\* hand has the cut direction of the record of the first hand, which is the
\* opposite of the direction of the first hand's previous arc.
C29_SmoothedSecondHandFollowsFirst ==
    [][(clock' = clock /\ difficulty' = difficulty /\ call'.both_hands) =>
         \A k \in 1..Len(call'.assigned) : \A j \in second_hands(call', k) :
            (smoothed(call', k) /\ smoothed(call', j))
            => LET first == coreography_contents'[call'.assigned[k][3]]
                   second == coreography_contents'[call'.assigned[j][3]]
               IN /\ second.cut_direction = first.cut_direction
                  /\ first.cut_direction
                       = opposite(last_record(call', call'.assigned[k][2]).cut_direction)
      ]_vars

\* both hands were smoothed for one point, and the second hand's own
\* previous arc asked for another direction than the one it got
C29_Witness ==
    /\ call.both_hands
    /\ Len(call.assigned) = 2
    /\ call.assigned[1][1] = call.assigned[2][1]
    /\ LET h == call.assigned[2][2]
           last_id == call.released.last_ids[h]
           second == coreography_contents[call.assigned[2][3]]
           first == coreography_contents[call.assigned[1][3]]
       IN /\ call.released.last_ids[call.assigned[1][2]] \in DOMAIN coreography_contents
          /\ last_id \in DOMAIN coreography_contents
          /\ is_arc(coreography_contents[last_id])
          /\ coreography_contents[last_id].time_finish = call.now
          /\ second.cut_direction = first.cut_direction
          /\ second.cut_direction
               # opposite(coreography_contents[last_id].cut_direction)

\* C36: with zones in 1..9 and a preferred order that is a permutation of
\* the two hands no move_to call raises: the coordinates of the hands and of
\* the records stay representable (column -1..4, row -1..3), a single-hand
\* call with a free hand and an arrival assigns a hand, and every identity
\* of the output list has a stored record, which build_coreography reads.
C36_NoCallRaises ==
    /\ ~raised
    /\ \A h \in HandEnums : ValidCoordinate(hands[h].coordinate)
    /\ \A id_ \in DOMAIN coreography_contents :
          /\ ValidCoordinate(coreography_contents[id_].coordinate)
          /\ ValidCoordinate(coreography_contents[id_].coordinate_end)
    /\ (call.now >= 0 /\ call.free # {} /\ call.arrivals # <<>>) =>
          call.assigned # <<>>
    /\ \A i \in 1..Len(coreography_ids) :
          coreography_ids[i] \in DOMAIN coreography_contents
    /\ difficulty # NoDifficulty =>
          Len(difficulty.notes) = Len(coreography_ids)

\* the right hand has left the grid through its lower right corner and
\* the difficulty was built
C36_Witness ==
    /\ ~raised
    /\ hands[RightBlueNote].coordinate = <<4, -1>>
    /\ difficulty # NoDifficulty
    /\ Len(difficulty.notes) >= 2

\* what check_cut gives the hand at the time now for every zone and for an
\* instantaneous point and an arc when the naive direction to the target is
\* Any
fallback_direction(hand, now) ==
    \A zone \in NoteCanvasPositionEnum :
        check_cut_movement_towards(hand, adapt(hand, zone)) = "Any" =>
            \A duration \in GridDurations :
                check_cut(hand, now, now + duration, zone, hand.hdisp,
                          0).cut_direction =
                    IF duration # 0 \/ hand.on_arc
                    THEN IF hand.direction # "Any"
                         THEN hand.direction
                         ELSE "Down"
                    ELSE "Any"

\* C39: when the naive direction from the hand to the target is Any (the
\* target is the hand's coordinate), check_cut returns, for an arc or a hand
\* on an arc, the hand's facing when that is concrete and Down when it is
\* Any, and for an instantaneous point with the hand off arcs it returns
\* Any.  Stated for the hands of the initial state and for every hand a
\* step leaves changed, as the step leaves it and as its call found it
\* after releasing.
C39_FallbackDirection ==
    /\ \A h \in HandEnums : fallback_direction(hands[h], clock)
    /\ [][\A h \in HandEnums :
            /\ hands'[h] # hands[h] =>
                  fallback_direction(hands'[h], clock')
            /\ call'.released.hands[h] # hands[h] =>
                  fallback_direction(call'.released.hands[h], clock')]_vars

\* the latest call gave a hand that was on an arc, or gave for an arc, a
\* point on the hand's own coordinate, and the record faces as the hand did;
\* now a hand with a concrete facing other than Down rests on a cell of its
\* own zones, where check_cut gives an arc that facing
C39_Witness ==
    /\ call.now >= 0
    /\ \E a \in Range(call.assigned) :
          /\ a[3] \in DOMAIN coreography_contents
          /\ \E hand \in {call.released.hands[a[2]]} :
             \E coreography \in {coreography_contents[a[3]]} :
                /\ coreography.coordinate = hand.coordinate
                /\ is_arc(coreography) \/ hand.on_arc
                /\ hand.direction # "Any"
                /\ coreography.cut_direction = hand.direction
    /\ \E h \in HandEnums, zone \in NoteCanvasPositionEnum :
          /\ adapt(hands[h], zone) = hands[h].coordinate
          /\ hands[h].direction \notin {"Any", "Down"}
          /\ check_cut(hands[h], clock, clock + 1000, zone, h, 0).cut_direction
                = hands[h].direction

----------------------------------------------------------------------------
(* Properties of the direction helpers (SpecGeom) *)

\* C10: opposite is an involution without fixed point on the 8 concrete cut
\* directions, and opposite(Any) is Any.
C10_OppositeInvolution ==
    /\ probe.n = 1 => (IF probe.d0 = "Any" THEN probe.d = "Any"
                       ELSE probe.d # probe.d0 /\ probe.d # "Any")
    /\ probe.n = 2 => probe.d = probe.d0

\* opposite was applied twice to a diagonal direction
C10_Witness ==
    /\ probe.n = 2
    /\ probe.d0 = "UpRight"
    /\ probe.d = "UpRight"

\* C31: for every current entry and every bounding box with min <= max the
\* zone is in 1..9 and NoteCanvasPositionEnum(pos) does not raise: pos is
\* the sum of a horizontal part (2 for a degenerate dimension, 1 at or below
\* min, 3 at or above max, 1 + k in the interior) and a vertical part (3,
\* 0, 6, 3 * k), k being the third of the box the coordinate lies in.
C31_ZoneInRange ==
    probe.op = "canvas_pos" =>
        LET cx == probe.arg[1]
            cy == probe.arg[2]
            bx == probe.arg[3][1]
            by == probe.arg[3][2]
            third(v, b) == CHOOSE k \in 0..2 :
                               /\ k * (b[2] - b[1]) <= 3 * (v - b[1])
                               /\ 3 * (v - b[1]) < (k + 1) * (b[2] - b[1])
            horizontal == IF bx[1] = bx[2] THEN 2
                          ELSE IF cx <= bx[1] THEN 1
                          ELSE IF cx >= bx[2] THEN 3
                          ELSE 1 + third(cx, bx)
            vertical == IF by[1] = by[2] THEN 3
                        ELSE IF cy <= by[1] THEN 0
                        ELSE IF cy >= by[2] THEN 6
                        ELSE 3 * third(cy, by)
        IN /\ probe.pos = horizontal + vertical
           /\ probe.pos \in 1..9
           /\ ~probe.raised

\* an entry in the last third of the width and the first third of the
\* height of its box
C31_Witness ==
    /\ probe.op = "canvas_pos"
    /\ probe.arg = <<3, 1, <<<<0, 4>>, <<0, 4>>>>>>
    /\ probe.pos = 3

\* C30: from_movement(dx, dy) is the direction whose unit movement is
\* (sign dx, sign dy), with the origin at the bottom left, and is Any
\* exactly for (0, 0); from_movement(into_movement(d)) is d for each of the
\* nine directions, and into_movement(Any) is (0, 0).
C30_QuantizationRoundTrip ==
    LET sign(n) == IF n < 0 THEN -1 ELSE IF n > 0 THEN 1 ELSE 0
        compass(x, y) ==
            CASE x = 0 /\ y = 0 -> "Any"
              [] x = -1 /\ y = 0 -> "Left"
              [] x = 1 /\ y = 0 -> "Right"
              [] x = 0 /\ y = 1 -> "Up"
              [] x = 0 /\ y = -1 -> "Down"
              [] x = -1 /\ y = 1 -> "UpLeft"
              [] x = 1 /\ y = 1 -> "UpRight"
              [] x = -1 /\ y = -1 -> "DownLeft"
              [] x = 1 /\ y = -1 -> "DownRight"
    IN /\ probe.op = "from_movement" =>
            /\ probe.d = compass(sign(probe.arg[1]), sign(probe.arg[2]))
            /\ into_movement(probe.d)
                 = <<sign(probe.arg[1]), sign(probe.arg[2])>>
            /\ probe.d = "Any" <=> probe.arg = <<0, 0>>
       /\ probe.op = "into_movement" =>
            /\ probe.d = compass(probe.movement[1], probe.movement[2])
            /\ probe.arg[1] = "Any" => probe.movement = <<0, 0>>
       /\ probe.op = "from_into_movement" => probe.d = probe.arg[1]

\* a diagonal direction went into its movement and came back
C30_Witness ==
    /\ probe.op = "from_into_movement"
    /\ probe.arg[1] = "DownLeft"
    /\ probe.d = "DownLeft"


\* C22 as stated: a step that leaves column -1..4 or row -1..3 raises and
\* leaves the coordinate as it was, a step that stays is taken as it is, and
\* mapping a zone outside 1..9 raises.
C22_OutOfRangeFailsLoudly ==
    /\ probe.op = "follow" =>
          IF ValidCoordinate(one_step(probe.was, probe.arg[1]))
          THEN ~probe.raised /\ probe.c = one_step(probe.was, probe.arg[1])
          ELSE probe.raised /\ probe.c = probe.was
    /\ (probe.op = "zone" /\ probe.arg[1] \notin 1..9) => probe.raised
    /\ (probe.op = "adapt" /\ probe.arg[2] \notin 1..9) =>
          probe.raised /\ probe.c = probe.was

\* C22 as amended: a step that leaves column -1..4 or row -1..3 raises and
\* leaves the coordinate as it was, a step that stays is taken as it is;
\* NoteCanvasPositionEnum(pos) raises for pos outside 1..9; adapt does not
\* test the zone: it raises exactly when the coordinate it computes is not
\* representable (zone <= -3 or zone >= 13) and otherwise returns column
\* ((zone-1) mod 3) + hdisp and row 2 - ((zone-1) div 3), off-grid rows 3
\* and -1 for the zones -2..0 and 10..12, never a clamped value.
C22_UnrepresentableFailsLoudly ==
    /\ probe.op = "follow" =>
          IF ValidCoordinate(one_step(probe.was, probe.arg[1]))
          THEN ~probe.raised /\ probe.c = one_step(probe.was, probe.arg[1])
          ELSE probe.raised /\ probe.c = probe.was
    /\ probe.op = "zone" => (probe.raised <=> probe.arg[1] \notin 1..9)
    /\ probe.op = "adapt" =>
          LET zone == probe.arg[2]
          IN /\ probe.raised <=> (zone <= -3 \/ zone >= 13)
             /\ probe.raised => probe.c = probe.was
             /\ ~probe.raised =>
                   /\ probe.c[1] = ((zone - 1) % 3) + probe.arg[1]
                   /\ probe.c[1] \in 0..3
                   /\ zone \in -2..0 => probe.c[2] = 3
                   /\ zone \in 1..9 => probe.c[2] \in 0..2
                   /\ zone \in 10..12 => probe.c[2] = -1

\* a hand that had left the playable area was sent to the zone 10 and
\* arrived below the grid without an error
C22_Witness ==
    /\ probe.op = "adapt"
    /\ probe.arg[2] = 10
    /\ ~probe.raised
    /\ probe.was[1] = 4
    /\ probe.c[2] = -1

====
